---- MODULE Spec2Model ----
(***************************************************************************)
(* pydatomic: an append-only datom store over a document-store backend.   *)
(*                                                                         *)
(* The remote 'datoms' collection is the sequence log of stored documents; *)
(* a Database value is (remote tx_max, remote e_max, local overlay); a     *)
(* Facts buffer is the staging list of (entity, attribute, value, op).     *)
(* Python exceptions are modelled as results [ok |-> FALSE, err |-> kind]. *)
(***************************************************************************)
EXTENDS Integers, Sequences, FiniteSets, TLC

VARIABLES log, facts, held, res

vars == <<log, facts, held, res>>

(***************************************************************************)
(* Bounds of the model.                                                    *)
(***************************************************************************)
\* longest Facts buffer built by the Facts operations
MaxFacts == 2
\* most documents the datoms collection and a held overlay hold together
MaxDatoms == 16
\* the documents of the log of a connection alone
MaxLog == 17

(***************************************************************************)
(* Values.  A Python value is [k, n, s]: k = "str" | "int"; a stored       *)
(* (wire) value may also be k = "date".                                    *)
(***************************************************************************)
StrV(s) == [k |-> "str", n |-> 0, s |-> s]
IntV(n) == [k |-> "int", n |-> n, s |-> ""]
DateV(n) == [k |-> "date", n |-> n, s |-> ""]

\* entity references of a Facts tuple
RInt(n) == [k |-> "int", n |-> n, s |-> "", a |-> "", v |-> StrV("")]
RStr(s) == [k |-> "str", n |-> 0, s |-> s, a |-> "", v |-> StrV("")]
RNone == [k |-> "none", n |-> 0, s |-> "", a |-> "", v |-> StrV("")]
RLookup(a, v) == [k |-> "list", n |-> 0, s |-> "", a |-> a, v |-> v]

Datom(id, e, a, v, tx, op) ==
    [id |-> id, e |-> e, a |-> a, v |-> v, tx |-> tx, op |-> op]

Ok(x) == [ok |-> TRUE, err |-> "", val |-> x]
Err(kind) == [ok |-> FALSE, err |-> kind, val |-> <<>>]

\* a local variable of the code: the value x bound once, then the rest F
Then(x, F(_)) == F(x)

max_default(S, default_value) ==
    IF S = {} THEN default_value
    ELSE LET m == CHOOSE x \in S : \A y \in S : y <= x
         IN IF m > default_value THEN m ELSE default_value

Range(s) == {s[i] : i \in 1..Len(s)}

(***************************************************************************)
(* builtin.py: value types, cardinality, uniqueness, builtin attributes.   *)
(***************************************************************************)
ValueTypeValues ==
    {"db.type/boolean", "db.type/double", "db.type/instant", "db.type/keyword",
     "db.type/long", "db.type/ref", "db.type/string", "db.type/uuid", "db.type/uri"}

CardinalityValues == {"db.cardinality/one", "db.cardinality/many"}

UniqueValues == {"db.unique/identity", "db.unique/value"}

python_type(vt) ==
    CASE vt \in {"db.type/keyword", "db.type/string", "db.type/uuid", "db.type/uri"} -> "str"
      [] vt \in {"db.type/instant", "db.type/long", "db.type/ref"} -> "int"
      [] vt = "db.type/boolean" -> "bool"
      [] OTHER -> "float"

mongo_type(vt) ==
    CASE vt = "db.type/instant" -> "Date"
      [] vt \in {"db.type/long", "db.type/ref"} -> "Int64"
      [] OTHER -> "Other"

Attr(ident, value_type, cardinality, unique, restricted_values) ==
    [ident |-> ident, value_type |-> value_type, cardinality |-> cardinality,
     unique |-> unique, restricted |-> restricted_values # {},
     restricted_values |-> restricted_values]

builtin_attr_dict ==
    [a \in {"db/txInstant", "db/ident", "db/valueType", "db/cardinality", "db/unique", "db/doc"} |->
        CASE a = "db/txInstant" -> Attr(a, "db.type/instant", "db.cardinality/one", "none", {})
          [] a = "db/ident" -> Attr(a, "db.type/keyword", "db.cardinality/one", "db.unique/identity", {})
          [] a = "db/valueType" -> Attr(a, "db.type/keyword", "db.cardinality/one", "none", ValueTypeValues)
          [] a = "db/cardinality" -> Attr(a, "db.type/keyword", "db.cardinality/one", "none", CardinalityValues)
          [] a = "db/unique" -> Attr(a, "db.type/keyword", "db.cardinality/one", "none", UniqueValues)
          [] OTHER -> Attr(a, "db.type/string", "db.cardinality/one", "none", {})]

BuiltinNames == DOMAIN builtin_attr_dict

\* the strings of the model that match the keyword grammar of validate_keyword
KeywordStrings ==
    ValueTypeValues \cup CardinalityValues \cup UniqueValues \cup BuiltinNames
        \cup {"pid", "tag", "nm", "rf", "new", "A", "B", "provider/id", "provider/name",
                "un"}

validate_keyword(s) == s \in KeywordStrings

\* util.int_to_datetime / datetime_to_int through the backend's millisecond
\* timestamp: exact for the instants of the model (all below 1001 ms)
int_to_datetime(n) == DateV(n)
datetime_to_int(d) == IntV(d.n)

mongo_encode_value(vt, value) ==
    IF mongo_type(vt) = "Date" THEN int_to_datetime(value.n) ELSE value

mongo_encode(vt, datom) == [datom EXCEPT !.v = mongo_encode_value(vt, datom.v)]

mongo_decode(doc) ==
    IF doc.v.k = "date" THEN [doc EXCEPT !.v = datetime_to_int(doc.v)] ELSE doc

(***************************************************************************)
(* core.py: reads of a Database value db = [tx_max, e_max, with] over the  *)
(* collection lg, through vw = View(db, lg).  A backend find returns the   *)
(* documents in insertion order.                                           *)
(***************************************************************************)
\* a backend query that drops the filter on tx: every document, decoded
RemoteFindUnfiltered(lg, tx_max) ==
    [i \in 1..Len(lg) |-> mongo_decode(lg[i])]

\* the documents a backend query with {'tx': {'$lte': tx_max}} sees, decoded
RemoteFind(lg, tx_max) ==
    LET docs == SelectSeq(lg, LAMBDA d : d.tx <= tx_max)
    IN [i \in 1..Len(docs) |-> mongo_decode(docs[i])]

LocalMaxKey(with_datoms, key) ==
    IF key = "e" THEN max_default({with_datoms[i].e : i \in 1..Len(with_datoms)}, -1)
    ELSE max_default({with_datoms[i].id : i \in 1..Len(with_datoms)}, -1)

GetMaxKey(vw, key) ==
    LET r == vw.r
        v == IF key = "e" THEN max_default({r[i].e : i \in 1..Len(r)}, -1)
             ELSE max_default({r[i].id : i \in 1..Len(r)}, -1)
        vf == LocalMaxKey(vw.with, key)
    IN IF vf > v THEN vf ELSE v

\* a largest datom id that leaves the overlay out
GetMaxIdOfRemote(vw) == max_default({vw.r[i].id : i \in 1..Len(vw.r)}, -1)

GetMaxId(vw) == GetMaxKey(vw, "_id")

GetMaxEntityId(vw) == GetMaxKey(vw, "e")

LocalTxMax(with_datoms) == max_default({with_datoms[i].tx : i \in 1..Len(with_datoms)}, -1)

\* a _tx_max that leaves the overlay out
TxMaxOfRemote(db) == db.tx_max

TxMax(db) == IF Len(db.with) > 0 THEN LocalTxMax(db.with) ELSE db.tx_max

RemoteDatabase(lg, tx_max) ==
    LET r == RemoteFind(lg, tx_max)
    IN [tx_max |-> tx_max,
        e_max |-> max_default({r[i].e : i \in 1..Len(r)}, -1),
        with |-> <<>>, tx_min |-> -1, full_history |-> FALSE]

ConnDb(lg) == RemoteDatabase(lg, max_default({lg[i].tx : i \in 1..Len(lg)}, -1))

\* a Database whose reads leave out the transactions up to tx_min
ViewSince(db, lg) ==
    [r |-> SelectSeq(RemoteFind(lg, db.tx_max), LAMBDA d : d.tx > db.tx_min),
     stored |-> SelectSeq(lg, LAMBDA d : d.tx <= db.tx_max /\ d.tx > db.tx_min),
     e_max |-> db.e_max, with |-> SelectSeq(db.with, LAMBDA d : d.tx > db.tx_min)]

\* what the reads of a Database value see: r = the remote snapshot (the
\* backend queries filtered by tx <= tx_max, decoded), stored = the same
\* documents as the backend holds them, e_max, with = the overlay
View(db, lg) ==
    [r |-> RemoteFind(lg, db.tx_max),
     stored |-> SelectSeq(lg, LAMBDA d : d.tx <= db.tx_max),
     e_max |-> db.e_max, with |-> db.with]

Entities(vw) == 0..GetMaxEntityId(vw)

\* the datoms _facts_multi_entity(E) collects for the entity e of E: the
\* remote query runs when some entity of E is <= e_max; the overlay follows
FactsMultiEntity(vw, E, e) ==
    LET remote == IF \E x \in E : x <= vw.e_max
                  THEN SelectSeq(vw.r, LAMBDA d : d.e = e)
                  ELSE <<>>
    IN remote \o SelectSeq(vw.with, LAMBDA d : d.e = e)

\* facts(entity) for an int entity
FactsOf(vw, entity) ==
    IF entity < 0 THEN <<>> ELSE FactsMultiEntity(vw, {entity}, entity)

\* _find_attribute_value: value = any (None) or a given value
FindAttribute(vw, attribute) ==
    SelectSeq(vw.r, LAMBDA d : d.a = attribute)
        \o SelectSeq(vw.with, LAMBDA d : d.a = attribute)

\* the backend compares the given value with the stored one, before decoding
FindAttributeValue(vw, attribute, value) ==
    LET docs == SelectSeq(vw.stored, LAMBDA d : d.a = attribute /\ d.v = value)
    IN [i \in 1..Len(docs) |-> mongo_decode(docs[i])]
           \o SelectSeq(vw.with, LAMBDA d : d.a = attribute /\ d.v = value)

\* a list.remove that leaves the list as it is
RemoveFirstKept(s, x) == s

RECURSIVE RemoveFirst(_, _)
RemoveFirst(s, x) ==
    IF s = <<>> THEN <<>>
    ELSE IF Head(s) = x THEN Tail(s)
    ELSE <<Head(s)>> \o RemoveFirst(Tail(s), x)

\* _get_active_facts: list.remove raises ValueError when the pair is absent
RECURSIVE GetActiveFactsFrom(_, _, _)
GetActiveFactsFrom(fs, i, active) ==
    IF i > Len(fs) THEN Ok(active)
    ELSE LET p == <<fs[i].a, fs[i].v>>
         IN IF fs[i].op THEN GetActiveFactsFrom(fs, i + 1, Append(active, p))
            ELSE IF p \in Range(active)
                 THEN GetActiveFactsFrom(fs, i + 1, RemoveFirst(active, p))
                 ELSE Err("ValueError:list.remove")

GetActiveFacts(fs) == GetActiveFactsFrom(fs, 1, <<>>)

\* the order in which Python iterates a set of small ints
RECURSIVE SetOrder(_)
SetOrder(S) ==
    IF S = {} THEN <<>>
    ELSE LET nonneg == {x \in S : x >= 0}
             pick == IF nonneg # {} THEN CHOOSE x \in nonneg : \A y \in nonneg : x <= y
                     ELSE CHOOSE x \in S : \A y \in S : y <= x
         IN <<pick>> \o SetOrder(S \ {pick})

\* _lookup_direct: the first candidate entity whose datoms with (attribute,
\* value) replay to an active pair; val = <<e>> when found, <<>> when not
LookupDirect(vw, attribute, value) ==
    Then(FindAttributeValue(vw, attribute, value), LAMBDA cand :
    Then({cand[i].e : i \in 1..Len(cand)}, LAMBDA ents :
    Then([e \in ents |-> GetActiveFacts(SelectSeq(cand, LAMBDA d : d.e = e))], LAMBDA act :
    Then({e \in ents : act[e].ok /\ act[e].val # <<>>}, LAMBDA hits :
        IF \E e \in ents : ~act[e].ok THEN Err("ValueError:list.remove")
        ELSE IF hits = {} THEN Ok(<<>>)
        ELSE Ok(<<SetOrder(hits)[1]>>)))))

\* d[a] of a get() result: many = the value is a list
Entry(many, vals) == [many |-> many, vals |-> vals]

EmptyDict == [a \in {} |-> Entry(FALSE, <<>>)]

DictSet(d, a, entry) == [x \in DOMAIN d \cup {a} |-> IF x = a THEN entry ELSE d[x]]

\* the dict of an entity whose active attributes are read as builtin
\* (all of cardinality one): the last active value of each attribute
AttrDict(active) ==
    LET names == {active[i][1] : i \in 1..Len(active)} \cap BuiltinNames
        last(a) == CHOOSE i \in 1..Len(active) :
                      /\ active[i][1] = a
                      /\ \A j \in 1..Len(active) : active[j][1] = a => j <= i
    IN [a \in names |-> Entry(FALSE, <<active[last(a)][2]>>)]

\* Attr.from_dict with the Attr root validator unique_cardinality
from_dict(dct) ==
    IF "db/ident" \notin DOMAIN dct THEN Err("KeyError:db/ident")
    ELSE IF "db/valueType" \notin DOMAIN dct \/ "db/cardinality" \notin DOMAIN dct
    THEN Err("ValueError:required attribute is not defined")
    ELSE LET u == IF "db/unique" \in DOMAIN dct THEN dct["db/unique"].vals[1].s ELSE "none"
             c == dct["db/cardinality"].vals[1].s
         IN IF u # "none" /\ c # "db.cardinality/one"
            THEN Err("ValueError:unique attribute must have cardinality one")
            ELSE Ok(Attr(dct["db/ident"].vals[1].s, dct["db/valueType"].vals[1].s, c, u, {}))

\* the entities find({'db/ident': None}) starts from, and their active pairs
IdentCandidates(vw) ==
    LET ds == FindAttribute(vw, "db/ident") IN {ds[i].e : i \in 1..Len(ds)}

\* _attr_def_cache, a dict in insertion order: one entry per name, holding
\* the entity e and the Attr built when the entry was made
NoCache == <<>>

InCache(cn, name) == \E i \in 1..Len(cn) : cn[i].name = name

\* _attr_def_cache[name][1]
CachedAttr(cn, name) == cn[CHOOSE i \in 1..Len(cn) : cn[i].name = name].attr

\* _attr_def_cache[name] = (e, attr): a present key keeps its position
CachePut(cn, name, e, attr) ==
    IF InCache(cn, name)
    THEN [i \in 1..Len(cn) |-> IF cn[i].name = name
                               THEN [name |-> name, e |-> e, attr |-> attr] ELSE cn[i]]
    ELSE Append(cn, [name |-> name, e |-> e, attr |-> attr])

\* the loop of the cache initialisation: one entry per result, in the order
\* of the result dict, until Attr.from_dict raises; val = the cache so far
RECURSIVE CacheFill(_, _, _, _, _)
CacheFill(order, i, dict, attrs, cached) ==
    IF i > Len(order) THEN Ok(cached)
    ELSE IF ~attrs[order[i]].ok
    THEN [ok |-> FALSE, err |-> attrs[order[i]].err, val |-> cached]
    ELSE CacheFill(order, i + 1, dict, attrs,
                   CachePut(cached, dict[order[i]]["db/ident"].vals[1].s, order[i],
                            attrs[order[i]].val))

\* the cache initialisation of _get_attr_def: find({'db/ident': None}), then
\* Attr.from_dict of every result.  Reading a candidate that holds an active
\* attribute that is not builtin re-enters _get_attr_def with the cache still
\* empty: unbounded recursion, a RecursionError.  val = the cache (on an
\* error: the entries made before it).
InitAttrDefCache(vw) ==
    Then(IdentCandidates(vw), LAMBDA cands :
    Then([e \in cands |-> GetActiveFacts(FactsMultiEntity(vw, cands, e))], LAMBDA act :
        IF \E e \in cands : ~act[e].ok
        THEN [ok |-> FALSE, err |-> "ValueError:list.remove", val |-> NoCache]
        ELSE IF \E e \in cands : \E i \in 1..Len(act[e].val) : act[e].val[i][1] \notin BuiltinNames
        THEN [ok |-> FALSE, err |-> "RecursionError", val |-> NoCache]
        ELSE Then([e \in cands |-> AttrDict(act[e].val)], LAMBDA dict :
             Then({e \in cands : "db/ident" \in DOMAIN dict[e]}, LAMBDA results :
             Then([e \in results |-> from_dict(dict[e])], LAMBDA attrs :
                 CacheFill(SetOrder(results), 1, dict, attrs, NoCache))))))

\* a result that also carries _attr_def_cache as it is afterwards
OkC(x, cn) == [ok |-> TRUE, err |-> "", val |-> x, cn |-> cn]
ErrC(kind, cn) == [ok |-> FALSE, err |-> kind, val |-> <<>>, cn |-> cn]

RECURSIVE GetAttrDef(_, _, _, _)
RECURSIVE ActiveFactsToDict(_, _, _, _, _, _)
RECURSIVE Get(_, _, _, _)

\* _get_attr_def(name) with cn = _attr_def_cache; stack = the
\* names whose definition is being built further up the call chain
GetAttrDef(vw, cn, stack, name) ==
    IF name \in BuiltinNames THEN OkC(builtin_attr_dict[name], cn)
    ELSE Then(IF cn = NoCache THEN InitAttrDefCache(vw) ELSE Ok(cn), LAMBDA init :
         IF ~init.ok THEN ErrC(init.err, init.val)
         ELSE IF InCache(init.val, name) THEN OkC(CachedAttr(init.val, name), init.val)
         ELSE IF name \in stack THEN ErrC("RecursionError", init.val)
         ELSE Then(LookupDirect(vw, "db/ident", StrV(name)), LAMBDA e :
              IF ~e.ok THEN ErrC(e.err, init.val)
              ELSE IF e.val = <<>> THEN ErrC("ValueError:attribute is not defined", init.val)
              ELSE Then(Get(vw, init.val, stack \cup {name}, e.val[1]), LAMBDA dct :
                   IF ~dct.ok THEN ErrC(dct.err, dct.cn)
                   ELSE Then(from_dict(dct.val), LAMBDA attr_def :
                        IF ~attr_def.ok THEN ErrC(attr_def.err, dct.cn)
                        ELSE OkC(attr_def.val,
                                 CachePut(dct.cn, name, e.val[1], attr_def.val))))))

\* _active_facts_to_dict
ActiveFactsToDict(vw, cn, stack, active, i, d) ==
    IF i > Len(active) THEN OkC(d, cn)
    ELSE Then(active[i][1], LAMBDA a :
         Then(active[i][2], LAMBDA v :
         Then(GetAttrDef(vw, cn, stack, a), LAMBDA attr :
             IF ~attr.ok THEN ErrC(attr.err, attr.cn)
             ELSE ActiveFactsToDict(vw, attr.cn, stack, active, i + 1,
                      DictSet(d, a,
                          IF attr.val.cardinality = "db.cardinality/one"
                          THEN Entry(FALSE, <<v>>)
                          ELSE Entry(TRUE, (IF a \in DOMAIN d THEN d[a].vals ELSE <<>>)
                                               \o <<v>>))))))

\* _get_from_facts
GetFromFacts(vw, cn, stack, fs) ==
    Then(GetActiveFacts(fs), LAMBDA active :
        IF ~active.ok THEN ErrC(active.err, cn)
        ELSE ActiveFactsToDict(vw, cn, stack, active.val, 1, EmptyDict))

\* get(entity) for an int entity
Get(vw, cn, stack, entity) ==
    GetFromFacts(vw, cn, stack, FactsOf(vw, entity))

\* _lookup(attribute, value); val = the entity
Lookup(vw, cn, attribute, value) ==
    Then(GetAttrDef(vw, cn, {}, attribute), LAMBDA attr_def :
        IF ~attr_def.ok THEN ErrC(attr_def.err, attr_def.cn)
        ELSE IF attr_def.val.unique = "none"
        THEN ErrC("ValueError:attribute is not unique", attr_def.cn)
        ELSE Then(LookupDirect(vw, attribute, value), LAMBDA e :
             IF ~e.ok THEN ErrC(e.err, attr_def.cn)
             ELSE IF e.val = <<>> THEN ErrC("EntityNotFoundError", attr_def.cn)
             ELSE OkC(e.val[1], attr_def.cn)))

RECURSIVE InsertById(_, _)
InsertById(sorted, d) ==
    IF sorted = <<>> THEN <<d>>
    ELSE IF sorted[Len(sorted)].id <= d.id THEN Append(sorted, d)
    ELSE Append(InsertById(SubSeq(sorted, 1, Len(sorted) - 1), d), sorted[Len(sorted)])

RECURSIVE SortedById(_, _, _)
SortedById(fs, i, acc) ==
    IF i > Len(fs) THEN acc ELSE SortedById(fs, i + 1, InsertById(acc, fs[i]))

\* all_facts(): _facts_multi_entity(entities()), sorted by datom id
AllFacts(vw) ==
    LET E == Entities(vw)
        remote == IF \E x \in E : x <= vw.e_max
                  THEN SelectSeq(vw.r, LAMBDA d : d.e \in E)
                  ELSE <<>>
        local == SelectSeq(vw.with, LAMBDA d : d.e \in E)
    IN SortedById(remote \o local, 1, <<>>)

\* one (attribute, value) pair of a find() criteria dict: any = the value is
\* None; otherwise the value is vals[1], or with many the list vals
CAny(a) == [a |-> a, any |-> TRUE, many |-> FALSE, vals |-> <<>>]
CVal(a, v) == [a |-> a, any |-> FALSE, many |-> FALSE, vals |-> <<v>>]
CList(a, vs) == [a |-> a, any |-> FALSE, many |-> TRUE, vals |-> vs]

\* the loop of _find_candidates: _get_from_facts of every candidate entity
RECURSIVE CandidatesFrom(_, _, _, _, _, _)
CandidatesFrom(vw, cn, ents, order, i, acc) ==
    IF i > Len(order) THEN OkC(acc, cn)
    ELSE Then(GetFromFacts(vw, cn, {}, FactsMultiEntity(vw, ents, order[i])), LAMBDA d :
         IF ~d.ok THEN ErrC(d.err, d.cn)
         ELSE CandidatesFrom(vw, d.cn, ents, order, i + 1,
                  [x \in DOMAIN acc \cup {order[i]} |->
                      IF x = order[i] THEN d.val ELSE acc[x]]))

\* _find_candidates(attr, val, return_all_attributes=True); a list is not
\* hashable, so the index lookup of _find_attribute_value raises TypeError
FindCandidates(vw, cn, c) ==
    IF ~c.any /\ c.many THEN ErrC("TypeError:unhashable type", cn)
    ELSE Then(IF c.any THEN FindAttribute(vw, c.a)
              ELSE FindAttributeValue(vw, c.a, c.vals[1]), LAMBDA candidate_datoms :
         Then({candidate_datoms[i].e : i \in 1..Len(candidate_datoms)}, LAMBDA ents :
             CandidatesFrom(vw, cn, ents, SetOrder(ents), 1, <<>>)))

\* _filter_candidates
FilterCandidates(candidates, criteria) ==
    Then({e \in DOMAIN candidates :
             \A i \in 1..Len(criteria) :
                 /\ criteria[i].a \in DOMAIN candidates[e]
                 /\ \/ criteria[i].any
                    \/ candidates[e][criteria[i].a]
                           = Entry(criteria[i].many, criteria[i].vals)}, LAMBDA keep :
        [e \in keep |-> candidates[e]])

\* find({}): get(e) of every entity of entities(), the non-empty ones kept
RECURSIVE FindAll(_, _, _, _)
FindAll(vw, cn, e, results) ==
    IF e \notin Entities(vw) THEN OkC(results, cn)
    ELSE Then(Get(vw, cn, {}, e), LAMBDA d :
         IF ~d.ok THEN ErrC(d.err, d.cn)
         ELSE FindAll(vw, d.cn, e + 1,
                  IF DOMAIN d.val = {} THEN results
                  ELSE [x \in DOMAIN results \cup {e} |->
                           IF x = e THEN d.val ELSE results[x]]))

\* Database.find(criteria); criteria = the pairs of the dict in order
Find(vw, cn, criteria) ==
    IF criteria = <<>> THEN FindAll(vw, cn, 0, <<>>)
    ELSE Then(FindCandidates(vw, cn, criteria[1]), LAMBDA candidates :
         IF ~candidates.ok THEN candidates
         ELSE OkC(FilterCandidates(candidates.val, criteria), candidates.cn))

\* the loop of Database.states and what follows it: states[tx_last] is set
\* when the tx changes and after the last datom, then states[-1] is deleted
RECURSIVE StatesFrom(_, _, _, _, _, _, _)
StatesFrom(vw, cn, fs, i, active_facts, tx_last, states) ==
    IF i > Len(fs)
    THEN Then(ActiveFactsToDict(vw, cn, {}, active_facts, 1, EmptyDict), LAMBDA d :
         IF ~d.ok THEN ErrC(d.err, d.cn)
         ELSE OkC([tx \in (DOMAIN states \cup {tx_last}) \ {-1} |->
                      IF tx = tx_last THEN d.val ELSE states[tx]], d.cn))
    ELSE Then(IF fs[i].tx # tx_last
              THEN ActiveFactsToDict(vw, cn, {}, active_facts, 1, EmptyDict)
              ELSE OkC(EmptyDict, cn), LAMBDA d :
         IF ~d.ok THEN ErrC(d.err, d.cn)
         ELSE IF ~fs[i].op /\ <<fs[i].a, fs[i].v>> \notin Range(active_facts)
         THEN ErrC("ValueError:list.remove", d.cn)
         ELSE StatesFrom(vw, d.cn, fs, i + 1,
                  IF fs[i].op THEN Append(active_facts, <<fs[i].a, fs[i].v>>)
                  ELSE RemoveFirst(active_facts, <<fs[i].a, fs[i].v>>),
                  fs[i].tx,
                  IF fs[i].tx # tx_last
                  THEN [tx \in DOMAIN states \cup {tx_last} |->
                           IF tx = tx_last THEN d.val ELSE states[tx]]
                  ELSE states))

\* Database.states(entity) for an int entity
States(vw, cn, entity) == StatesFrom(vw, cn, FactsOf(vw, entity), 1, <<>>, -1, <<>>)

(***************************************************************************)
(* builtin.py: the validators of an attribute definition.                  *)
(***************************************************************************)
\* the strings of the model that uuid.UUID / rfc3986.is_valid_uri accept
UuidStrings == {"5338d5e4-6f3e-45fe-8af5-e2d96213b300"}
UriStrings == {"http://example.com"}

\* ValueType.validate_type without the ref check, then validate_restricted_values
ValidateValue(attr, value) ==
    IF value.k # python_type(attr.value_type) THEN Err("ValueError:python type")
    ELSE IF attr.value_type = "db.type/keyword" /\ ~validate_keyword(value.s)
    THEN Err("ValueError:keyword")
    ELSE IF attr.value_type = "db.type/uuid" /\ value.s \notin UuidStrings
    THEN Err("ValueError:uuid")
    ELSE IF attr.value_type = "db.type/uri" /\ value.s \notin UriStrings
    THEN Err("ValueError:uri")
    ELSE IF attr.restricted /\ ~(value.k = "str" /\ value.s \in attr.restricted_values)
    THEN Err("ValueError:restricted values")
    ELSE Ok(<<>>)

\* the ref check of validate_type: db.get(value) must not be empty
ValidateRef(attr, value, vw, cn) ==
    IF attr.value_type # "db.type/ref" THEN OkC(<<>>, cn)
    ELSE Then(Get(vw, cn, {}, value.n), LAMBDA d :
         IF ~d.ok THEN ErrC(d.err, d.cn)
         ELSE IF DOMAIN d.val = {} THEN ErrC("ValueError:entity does not exist", d.cn)
         ELSE OkC(<<>>, d.cn))

\* a validate_cardinality that lets a cardinality-many attribute take a value
\* it already holds
ValidateCardinalityManyTwice(attr, e, value, data, op) ==
    IF op
    THEN IF attr.cardinality = "db.cardinality/one" /\ attr.ident \in DOMAIN data
         THEN Err("ValueError:a value is already set") ELSE Ok(<<>>)
    ELSE IF attr.ident \notin DOMAIN data \/ value \notin Range(data[attr.ident].vals)
         THEN Err("ValueError:the value is not set") ELSE Ok(<<>>)

\* Attr.validate_cardinality, data = db.get(e)
ValidateCardinality(attr, e, value, data, op) ==
    IF op
    THEN IF attr.cardinality = "db.cardinality/one"
         THEN IF attr.ident \in DOMAIN data
              THEN Err("ValueError:a value is already set") ELSE Ok(<<>>)
         ELSE IF attr.ident \in DOMAIN data /\ value \in Range(data[attr.ident].vals)
              THEN Err("ValueError:the value is already present") ELSE Ok(<<>>)
    ELSE IF attr.cardinality = "db.cardinality/one"
         THEN IF attr.ident \notin DOMAIN data
                   \/ data[attr.ident].many \/ data[attr.ident].vals[1] # value
              THEN Err("ValueError:the value is not set") ELSE Ok(<<>>)
         ELSE IF attr.ident \notin DOMAIN data \/ value \notin Range(data[attr.ident].vals)
              THEN Err("ValueError:the value is not set") ELSE Ok(<<>>)

\* a validate_uniqueness that looks nothing up
ValidateUniquenessSkipped(attr, value, op, vw, cn) == OkC(<<>>, cn)

\* Attr.validate_uniqueness
ValidateUniqueness(attr, value, op, vw, cn) ==
    IF op /\ attr.unique \in UniqueValues
    THEN Then(Lookup(vw, cn, attr.ident, value), LAMBDA e :
         IF e.ok THEN ErrC("ValueError:unique value is already assigned", e.cn)
         ELSE IF e.err = "EntityNotFoundError" THEN OkC(<<>>, e.cn)
         ELSE ErrC(e.err, e.cn))
    ELSE OkC(<<>>, cn)

(***************************************************************************)
(* core.py: the transaction engine.                                        *)
(***************************************************************************)
\* a _resolve_entity that does not count the entity it gives to None
ResolveEntityNoneUncounted(vw, cn, entity, names, max_entity, current_max_entity) ==
    CASE entity.k = "int" ->
            IF entity.n > current_max_entity
            THEN ErrC("ValueError:entity is not assigned yet", cn)
            ELSE OkC([e |-> entity.n, names |-> names, max_entity |-> max_entity], cn)
      [] entity.k = "list" ->
            Then(Lookup(vw, cn, entity.a, entity.v), LAMBDA e :
                IF ~e.ok THEN ErrC(e.err, e.cn)
                ELSE OkC([e |-> e.val, names |-> names, max_entity |-> max_entity], e.cn))
      [] entity.k = "str" ->
            IF entity.s \notin DOMAIN names
            THEN OkC([e |-> max_entity + 1,
                      names |-> [x \in DOMAIN names \cup {entity.s} |->
                                    IF x = entity.s THEN max_entity + 1 ELSE names[x]],
                      max_entity |-> max_entity + 1], cn)
            ELSE OkC([e |-> names[entity.s], names |-> names, max_entity |-> max_entity], cn)
      [] OTHER ->
            OkC([e |-> max_entity + 1, names |-> names, max_entity |-> max_entity], cn)

\* a _resolve_entity that allocates a new entity at every use of a name
ResolveEntityFreshEachUse(vw, cn, entity, names, max_entity, current_max_entity) ==
    CASE entity.k = "int" ->
            IF entity.n > current_max_entity
            THEN ErrC("ValueError:entity is not assigned yet", cn)
            ELSE OkC([e |-> entity.n, names |-> names, max_entity |-> max_entity], cn)
      [] entity.k = "list" ->
            Then(Lookup(vw, cn, entity.a, entity.v), LAMBDA e :
                IF ~e.ok THEN ErrC(e.err, e.cn)
                ELSE OkC([e |-> e.val, names |-> names, max_entity |-> max_entity], e.cn))
      [] entity.k = "str" ->
            OkC([e |-> max_entity + 1,
                 names |-> [x \in DOMAIN names \cup {entity.s} |->
                               IF x = entity.s THEN max_entity + 1 ELSE names[x]],
                 max_entity |-> max_entity + 1], cn)
      [] OTHER ->
            OkC([e |-> max_entity + 1, names |-> names, max_entity |-> max_entity + 1], cn)

\* _resolve_entity; val = [e, names, max_entity]
ResolveEntity(vw, cn, entity, names, max_entity, current_max_entity) ==
    CASE entity.k = "int" ->
            IF entity.n > current_max_entity
            THEN ErrC("ValueError:entity is not assigned yet", cn)
            ELSE OkC([e |-> entity.n, names |-> names, max_entity |-> max_entity], cn)
      [] entity.k = "list" ->
            Then(Lookup(vw, cn, entity.a, entity.v), LAMBDA e :
                IF ~e.ok THEN ErrC(e.err, e.cn)
                ELSE OkC([e |-> e.val, names |-> names, max_entity |-> max_entity], e.cn))
      [] entity.k = "str" ->
            IF entity.s \notin DOMAIN names
            THEN OkC([e |-> max_entity + 1,
                      names |-> [x \in DOMAIN names \cup {entity.s} |->
                                    IF x = entity.s THEN max_entity + 1 ELSE names[x]],
                      max_entity |-> max_entity + 1], cn)
            ELSE OkC([e |-> names[entity.s], names |-> names, max_entity |-> max_entity], cn)
      [] OTHER ->
            OkC([e |-> max_entity + 1, names |-> names, max_entity |-> max_entity + 1], cn)

RECURSIVE TransactionDataFrom(_, _, _, _, _, _, _, _, _, _)
TransactionDataFrom(vw, cn, f, i, names, max_entity, current_max_entity, max_id, tx, tx_data) ==
    IF i > Len(f) THEN Ok([tx_data |-> tx_data, temp_ids |-> names])
    ELSE Then(ResolveEntity(vw, cn, f[i].e, names, max_entity, current_max_entity), LAMBDA r :
         IF ~r.ok THEN Err(r.err)
         ELSE TransactionDataFrom(vw, r.cn, f, i + 1, r.val.names, r.val.max_entity,
                  current_max_entity, max_id, tx,
                  Append(tx_data,
                         Datom(max_id + (i - 1) + 1, r.val.e, f[i].a, f[i].v, tx, f[i].op))))

\* a _transaction_data that puts the db/txInstant fact after the buffer
TransactionDataInstantLast(vw, fs, time) ==
    Then(GetMaxEntityId(vw), LAMBDA max_entity :
        TransactionDataFrom(vw, NoCache,
            fs \o <<[e |-> RStr("datomic.tx"), a |-> "db/txInstant", v |-> IntV(time),
                     op |-> TRUE]>>,
            1, [x \in {"datomic.tx"} |-> max_entity + 1], max_entity + 1, max_entity,
            GetMaxId(vw), max_entity + 1, <<>>))

\* a _transaction_data that resolves each entity against the starting value
\* with the datoms built so far applied
RECURSIVE TransactionDataFromApplied(_, _, _, _, _, _, _, _, _, _)
TransactionDataFromApplied(vw, cn, f, i, names, max_entity, current_max_entity, max_id, tx,
                           tx_data) ==
    IF i > Len(f) THEN Ok([tx_data |-> tx_data, temp_ids |-> names])
    ELSE Then(ResolveEntity([vw EXCEPT !.with = vw.with \o tx_data], cn, f[i].e, names,
                            max_entity, current_max_entity), LAMBDA r :
         IF ~r.ok THEN Err(r.err)
         ELSE TransactionDataFromApplied(vw, r.cn, f, i + 1, r.val.names, r.val.max_entity,
                  current_max_entity, max_id, tx,
                  Append(tx_data,
                         Datom(max_id + (i - 1) + 1, r.val.e, f[i].a, f[i].v, tx, f[i].op))))

TransactionDataApplied(vw, fs, time) ==
    Then(GetMaxEntityId(vw), LAMBDA max_entity :
    Then(GetMaxId(vw), LAMBDA max_id :
    Then(max_entity + 1, LAMBDA tx :
        TransactionDataFromApplied(vw, NoCache,
            <<[e |-> RStr("datomic.tx"), a |-> "db/txInstant", v |-> IntV(time), op |-> TRUE]>>
                \o fs,
            1, [x \in {"datomic.tx"} |-> tx], max_entity + 1, max_entity, max_id, tx, <<>>))))

\* a _transaction_data that leaves one entity id out before the transaction
\* entity
TransactionDataSkipsOne(vw, fs, time) ==
    Then(GetMaxEntityId(vw), LAMBDA max_entity :
    Then(GetMaxId(vw), LAMBDA max_id :
    Then(max_entity + 2, LAMBDA tx :
        TransactionDataFrom(vw, NoCache,
            <<[e |-> RStr("datomic.tx"), a |-> "db/txInstant", v |-> IntV(time), op |-> TRUE]>>
                \o fs,
            1, [x \in {"datomic.tx"} |-> tx], max_entity + 2, max_entity, max_id, tx, <<>>))))

\* _transaction_data; val = [tx_data, temp_ids]
TransactionData(vw, fs, time) ==
    Then(GetMaxEntityId(vw), LAMBDA max_entity :
    Then(GetMaxId(vw), LAMBDA max_id :
    Then(max_entity + 1, LAMBDA tx :
        TransactionDataFrom(vw, NoCache,
            <<[e |-> RStr("datomic.tx"), a |-> "db/txInstant", v |-> IntV(time), op |-> TRUE]>>
                \o fs,
            1, [x \in {"datomic.tx"} |-> tx], max_entity + 1, max_entity, max_id, tx, <<>>))))

\* _validate_datom; val = attr_def
ValidateDatom(vw, cn, datom) ==
    Then(GetAttrDef(vw, cn, {}, datom.a), LAMBDA attr_def :
        IF ~attr_def.ok THEN ErrC(attr_def.err, attr_def.cn)
        ELSE Then(ValidateValue(attr_def.val, datom.v), LAMBDA vv :
             IF ~vv.ok THEN ErrC(vv.err, attr_def.cn)
             ELSE Then(ValidateRef(attr_def.val, datom.v, vw, attr_def.cn), LAMBDA vr :
                  IF ~vr.ok THEN ErrC(vr.err, vr.cn)
                  ELSE Then(Get(vw, vr.cn, {}, datom.e), LAMBDA data :
                       IF ~data.ok THEN ErrC(data.err, data.cn)
                       ELSE Then(ValidateCardinality(attr_def.val, datom.e, datom.v,
                                                     data.val, datom.op), LAMBDA vc :
                            IF ~vc.ok THEN ErrC(vc.err, data.cn)
                            ELSE Then(ValidateUniqueness(attr_def.val, datom.v, datom.op,
                                                         vw, data.cn), LAMBDA vu :
                                 IF ~vu.ok THEN ErrC(vu.err, vu.cn)
                                 ELSE OkC(attr_def.val, vu.cn)))))))

\* the loop over _attr_def_cache in _apply_datom: the first entry made for
\* the entity e is deleted, and the loop ends there
Evict(cn, e) ==
    IF \E i \in 1..Len(cn) : cn[i].e = e
    THEN Then(CHOOSE i \in 1..Len(cn) : cn[i].e = e /\ \A j \in 1..(i - 1) : cn[j].e # e,
              LAMBDA i : SubSeq(cn, 1, i - 1) \o SubSeq(cn, i + 1, Len(cn)))
    ELSE cn

\* _apply_datom: LocalDatoms.append_fact in place, cache eviction; the view
\* and the cache afterwards
ApplyDatom(vw, cn, datom) ==
    [vw |-> [vw EXCEPT !.with = Append(vw.with, datom)],
     cn |-> Evict(cn, datom.e)]

\* a validator that works on the receiver's own overlay list
ApplicativeCopyShared(db) == [db |-> db, own |-> FALSE]

\* _applicative_copy: a Database over a copy of the overlay list (own = the
\* list is not the receiver's list object)
ApplicativeCopy(db) == [db |-> db, own |-> TRUE]

RECURSIVE ValidateFrom(_, _, _, _, _)
ValidateFrom(vw, cn, tx_data, i, lst) ==
    IF i > Len(tx_data) THEN [ok |-> TRUE, err |-> "", val |-> lst, with |-> vw.with]
    ELSE Then(ValidateDatom(vw, cn, tx_data[i]), LAMBDA attr_def :
         IF ~attr_def.ok
         THEN [ok |-> FALSE, err |-> attr_def.err, val |-> lst, with |-> vw.with]
         ELSE Then(ApplyDatom(vw, attr_def.cn, tx_data[i]), LAMBDA a :
              ValidateFrom(a.vw, a.cn, tx_data, i + 1,
                  Append(lst, mongo_encode(attr_def.val.value_type, tx_data[i])))))

\* _validate_transaction; val = the documents validated so far, self_with =
\* the receiver's overlay list after the call
ValidateTransaction(db, lg, tx_data) ==
    Then(ApplicativeCopy(db), LAMBDA c :
    Then(ValidateFrom(View(c.db, lg), NoCache, tx_data, 1, <<>>), LAMBDA r :
        [ok |-> r.ok, err |-> r.err, val |-> r.val,
         self_with |-> IF c.own THEN db.with ELSE r.with]))

NoNames == [x \in {} |-> 0]

NoDb == [tx_max |-> -1, e_max |-> -1, with |-> <<>>, tx_min |-> -1, full_history |-> FALSE]

NoRes == [op |-> "none", ok |-> FALSE, err |-> "", db_before |-> NoDb, db_after |-> NoDb,
          tx_data |-> <<>>, temp_ids |-> NoNames, self |-> NoDb]

Result(op, ok, err, db_before, db_after, tx_data, temp_ids, self) ==
    [op |-> op, ok |-> ok, err |-> err, db_before |-> db_before, db_after |-> db_after,
     tx_data |-> tx_data, temp_ids |-> temp_ids, self |-> self]

\* Connection.transact: the collection and the returned tuple
TransactCall(lg, fs, time) ==
    Then(ConnDb(lg), LAMBDA db_before :
    Then(TransactionData(View(db_before, lg), fs, time), LAMBDA td :
        IF ~td.ok
        THEN [log |-> lg,
              res |-> Result("transact", FALSE, td.err, db_before, NoDb, <<>>, NoNames, NoDb)]
        ELSE Then(ValidateTransaction(db_before, lg, td.val.tx_data), LAMBDA lst_mongo :
             IF ~lst_mongo.ok
             THEN [log |-> lg,
                   res |-> Result("transact", FALSE, lst_mongo.err, db_before, NoDb,
                                  <<>>, NoNames, NoDb)]
             ELSE Then(lg \o lst_mongo.val, LAMBDA written :
                  [log |-> written,
                   res |-> Result("transact", TRUE, "", db_before, ConnDb(written),
                                  td.val.tx_data, td.val.temp_ids, NoDb)]))))

\* an as_if that skips _validate_transaction
AsIfCallUnvalidated(db, lg, fs, time) ==
    Then([db EXCEPT !.tx_min = -1, !.full_history = FALSE], LAMBDA db_before :
    Then(TransactionData(View(db_before, lg), fs, time), LAMBDA td :
        IF ~td.ok
        THEN Result("as_if", FALSE, td.err, db_before, NoDb, <<>>, NoNames, db)
        ELSE Result("as_if", TRUE, "", db_before,
                    [db_before EXCEPT !.with = db.with \o td.val.tx_data],
                    td.val.tx_data, td.val.temp_ids, db)))

\* Database.as_if on the receiver db: the returned tuple, and self = the
\* receiver after the call
AsIfCall(db, lg, fs, time) ==
    Then([db EXCEPT !.tx_min = -1, !.full_history = FALSE], LAMBDA db_before :
    Then(TransactionData(View(db_before, lg), fs, time), LAMBDA td :
        IF ~td.ok
        THEN Result("as_if", FALSE, td.err, db_before, NoDb, <<>>, NoNames, db)
        ELSE Then(ValidateTransaction(db_before, lg, td.val.tx_data), LAMBDA v :
             Then([db EXCEPT !.with = v.self_with], LAMBDA self :
                 IF ~v.ok
                 THEN Result("as_if", FALSE, v.err, db_before, NoDb, <<>>, NoNames, self)
                 ELSE Result("as_if", TRUE, "", db_before,
                             [db_before EXCEPT !.with = self.with \o td.val.tx_data],
                             td.val.tx_data, td.val.temp_ids, self)))))

\* a LocalDatoms.as_of that keeps every datom
LocalAsOfUnfiltered(with_datoms, tx_id) == with_datoms

\* LocalDatoms.as_of
LocalAsOf(with_datoms, tx_id) == SelectSeq(with_datoms, LAMBDA f : f.tx <= tx_id)

\* Database.as_of; val = the returned Database value
AsOfCall(db, lg, tx_id) ==
    IF tx_id > TxMax(db) THEN Err("ValueError:cannot travel into the future")
    ELSE IF tx_id > db.tx_max
    THEN Ok([tx_max |-> db.tx_max, e_max |-> db.e_max, with |-> LocalAsOf(db.with, tx_id),
             tx_min |-> -1, full_history |-> FALSE])
    ELSE Ok(RemoteDatabase(lg, tx_id))

\* Database.since: the returned Database value
Since(db, tx_id) == [db EXCEPT !.tx_min = tx_id, !.full_history = FALSE]

\* Database.history: the returned Database value
History(db) == [db EXCEPT !.full_history = TRUE]

\* Database.transaction_at(time) for an int time (milliseconds)
transaction_at(vw, time) ==
    Then(FindAttribute(vw, "db/txInstant"), LAMBDA fs :
        Ok(max_default({fs[i].tx : i \in {i \in 1..Len(fs) : fs[i].v.n <= time}}, -1)))

\* get(entity) for a lookup ref [attribute, value]: facts() resolves it with
\* _lookup first
GetRef(vw, cn, attribute, value) ==
    Then(Lookup(vw, cn, attribute, value), LAMBDA e :
        IF ~e.ok THEN ErrC(e.err, e.cn) ELSE Get(vw, e.cn, {}, e.val))

(***************************************************************************)
(* core.py: the index caches of a Database object and of its LocalDatoms.  *)
(* A cache that was never built is NotBuilt; a dict is a function on its   *)
(* keys.  An operation returns self = the object afterwards and val = what *)
(* the call returns.                                                       *)
(***************************************************************************)
NotBuilt == [some |-> FALSE, val |-> <<>>]

Built(x) == [some |-> TRUE, val |-> x]

\* LocalDatoms(facts): the list, every cache None
LocalDatoms(f) ==
    [datoms |-> f, tx_max |-> NotBuilt, e_max |-> NotBuilt, id_max |-> NotBuilt,
     a_index |-> NotBuilt, av_index |-> NotBuilt, e_index |-> NotBuilt]

\* the dict the loop of facts_by_attribute builds
GroupByAttribute(ds) ==
    [a \in {ds[i].a : i \in 1..Len(ds)} |-> SelectSeq(ds, LAMBDA d : d.a = a)]

\* the dict the loop of facts_by_attribute_value builds
GroupByAttributeValue(ds) ==
    [a \in {ds[i].a : i \in 1..Len(ds)} |->
        [v \in {ds[i].v : i \in {j \in 1..Len(ds) : ds[j].a = a}} |->
            SelectSeq(ds, LAMBDA d : d.a = a /\ d.v = v)]]

\* the dict the loop of facts_by_entity builds
GroupByEntity(ds) ==
    [e \in {ds[i].e : i \in 1..Len(ds)} |-> SelectSeq(ds, LAMBDA d : d.e = e)]

facts_by_attribute(self, attribute) ==
    Then(IF self.a_index.some THEN self
         ELSE [self EXCEPT !.a_index = Built(GroupByAttribute(self.datoms))], LAMBDA s :
        [self |-> s,
         val |-> IF attribute \in DOMAIN s.a_index.val
                 THEN s.a_index.val[attribute] ELSE <<>>])

facts_by_attribute_value(self, attribute, value) ==
    Then(IF self.av_index.some THEN self
         ELSE [self EXCEPT !.av_index = Built(GroupByAttributeValue(self.datoms))], LAMBDA s :
        [self |-> s,
         val |-> IF attribute \in DOMAIN s.av_index.val
                 THEN IF value \in DOMAIN s.av_index.val[attribute]
                      THEN s.av_index.val[attribute][value] ELSE <<>>
                 ELSE <<>>])

facts_by_entity(self, entity) ==
    Then(IF self.e_index.some THEN self
         ELSE [self EXCEPT !.e_index = Built(GroupByEntity(self.datoms))], LAMBDA s :
        [self |-> s,
         val |-> IF entity \in DOMAIN s.e_index.val THEN s.e_index.val[entity] ELSE <<>>])

\* LocalDatoms.tx_max
TxMaxCached(self) ==
    Then(IF self.tx_max.some THEN self
         ELSE [self EXCEPT !.tx_max = Built(LocalTxMax(self.datoms))], LAMBDA s :
        [self |-> s, val |-> s.tx_max.val])

\* LocalDatoms.max_key for key = 'e' or '_id'
MaxKeyCached(self, key) ==
    Then(IF self.e_max.some /\ self.id_max.some THEN self
         ELSE [self EXCEPT !.e_max = Built(LocalMaxKey(self.datoms, "e")),
                           !.id_max = Built(LocalMaxKey(self.datoms, "_id"))], LAMBDA s :
        [self |-> s, val |-> IF key = "e" THEN s.e_max.val ELSE s.id_max.val])

\* d[k].append(x) after d[k] = [] for a missing k
DictAppend(d, k, x) == DictSet(d, k, Append(IF k \in DOMAIN d THEN d[k] ELSE <<>>, x))

\* the maximum cache m after a datom with the key value n is appended
MaxAfter(m, n) == IF m.some /\ n > m.val THEN Built(n) ELSE m

\* LocalDatoms.append_fact: in place, patching every cache that is built
append_fact(self, datom) ==
    [datoms |-> Append(self.datoms, datom),
     tx_max |-> MaxAfter(self.tx_max, datom.tx),
     e_max |-> MaxAfter(self.e_max, datom.e),
     id_max |-> MaxAfter(self.id_max, datom.id),
     a_index |-> IF self.a_index.some
                 THEN Built(DictAppend(self.a_index.val, datom.a, datom)) ELSE NotBuilt,
     av_index |-> IF self.av_index.some
                  THEN Built(DictSet(self.av_index.val, datom.a,
                           DictAppend(IF datom.a \in DOMAIN self.av_index.val
                                      THEN self.av_index.val[datom.a] ELSE <<>>,
                                      datom.v, datom)))
                  ELSE NotBuilt,
     e_index |-> IF self.e_index.some
                 THEN Built(DictAppend(self.e_index.val, datom.e, datom)) ELSE NotBuilt]

\* the Database object _applicative_copy returns for the value db: a copy of
\* the overlay list in a new LocalDatoms, every index empty
IndexedCopy(db) ==
    [tx_max |-> db.tx_max, e_max |-> db.e_max, tx_min |-> -1, full_history |-> FALSE,
     with_datoms |-> LocalDatoms(db.with), attr_index |-> <<>>, attr_val_index |-> <<>>, entity_index |-> <<>>,
     attr_val_index_complete |-> {}]

\* what the backend queries of the object self see
RemoteOf(self, lg) ==
    View([tx_max |-> self.tx_max, e_max |-> self.e_max, with |-> <<>>,
          tx_min |-> self.tx_min, full_history |-> self.full_history], lg)

\* _get_attr_index(attribute, None)
GetAttrIndexAny(self, lg, attribute) ==
    Then(facts_by_attribute(self.with_datoms, attribute), LAMBDA l :
        [self |-> [self EXCEPT !.with_datoms = l.self],
         val |-> FindAttribute(RemoteOf(self, lg), attribute) \o l.val])

\* _get_attr_index(attribute, value)
GetAttrIndex(self, lg, attribute, value) ==
    Then(facts_by_attribute_value(self.with_datoms, attribute, value), LAMBDA l :
        [self |-> [self EXCEPT !.with_datoms = l.self],
         val |-> FindAttributeValue(RemoteOf(self, lg), attribute, value) \o l.val])

\* _get_attr_val_index_from_attr_index
GetAttrValIndexFromAttrIndex(fs) ==
    [v \in {fs[i].v : i \in 1..Len(fs)} |-> SelectSeq(fs, LAMBDA d : d.v = v)]

\* _find_attribute_value(attribute, None) on the object self
FindAttributeCached(self, lg, attribute) ==
    Then(IF attribute \in DOMAIN self.attr_index THEN self
         ELSE Then(GetAttrIndexAny(self, lg, attribute), LAMBDA ix :
              [ix.self EXCEPT
                  !.attr_index = DictSet(@, attribute, ix.val),
                  !.attr_val_index = DictSet(@, attribute, GetAttrValIndexFromAttrIndex(ix.val)),
                  !.attr_val_index_complete = @ \cup {attribute}]), LAMBDA s :
        [self |-> s, val |-> s.attr_index[attribute]])

\* _find_attribute_value(attribute, value) on the object self
FindAttributeValueCached(self, lg, attribute, value) ==
    Then(IF attribute \in DOMAIN self.attr_val_index THEN self
         ELSE [self EXCEPT !.attr_val_index = DictSet(@, attribute, <<>>)], LAMBDA s1 :
    Then(IF attribute \notin s1.attr_val_index_complete
            /\ value \notin DOMAIN s1.attr_val_index[attribute]
         THEN Then(GetAttrIndex(s1, lg, attribute, value), LAMBDA ix :
              [ix.self EXCEPT !.attr_val_index =
                  DictSet(@, attribute, DictSet(@[attribute], value, ix.val))])
         ELSE s1, LAMBDA s :
        [self |-> s,
         val |-> IF value \in DOMAIN s.attr_val_index[attribute]
                 THEN s.attr_val_index[attribute][value] ELSE <<>>]))

\* the concatenation of f[e] over the entities of order
RECURSIVE Extend(_, _, _)
Extend(f, order, i) ==
    IF i > Len(order) THEN <<>> ELSE f[order[i]] \o Extend(f, order, i + 1)

\* _facts_multi_entity(entities) on the object self
FactsMultiEntityCached(self, lg, entities) ==
    Then(entities \cap DOMAIN self.entity_index, LAMBDA indexed :
    Then(entities \ indexed, LAMBDA remaining_entities :
        IF remaining_entities = {}
        THEN [self |-> self, val |-> Extend(self.entity_index, SetOrder(indexed), 1)]
        ELSE Then(IF \E e \in remaining_entities : e <= self.e_max
                  THEN SelectSeq(RemoteOf(self, lg).r, LAMBDA d : d.e \in remaining_entities)
                  ELSE <<>>, LAMBDA lst :
             Then(facts_by_entity(self.with_datoms, 0).self, LAMBDA l :
             Then([e \in remaining_entities |->
                      SelectSeq(lst, LAMBDA d : d.e = e) \o facts_by_entity(l, e).val],
                  LAMBDA facts_dict :
                 [self |-> [self EXCEPT
                               !.with_datoms = l,
                               !.entity_index = [e \in DOMAIN @ \cup remaining_entities |->
                                                    IF e \in remaining_entities
                                                    THEN facts_dict[e] ELSE @[e]]],
                  val |-> Extend(self.entity_index, SetOrder(indexed), 1) \o lst
                              \o Extend([e \in remaining_entities |->
                                            facts_by_entity(l, e).val],
                                        SetOrder(remaining_entities), 1)])))))

\* an _apply_datom that patches no attribute/value index
ApplyDatomIndexedKeepsAttrVal(self, datom) ==
    [self EXCEPT
        !.with_datoms = append_fact(@, datom),
        !.attr_index = IF datom.a \in DOMAIN @ THEN DictAppend(@, datom.a, datom) ELSE @,
        !.entity_index = IF datom.e \in DOMAIN @ THEN DictAppend(@, datom.e, datom) ELSE @]

\* _apply_datom on the object self, but for _attr_def_cache: append_fact,
\* then every index that holds the key of the datom is patched
ApplyDatomIndexed(self, datom) ==
    [self EXCEPT
        !.with_datoms = append_fact(@, datom),
        !.attr_index = IF datom.a \in DOMAIN @ THEN DictAppend(@, datom.a, datom) ELSE @,
        !.attr_val_index =
            IF datom.a \in DOMAIN @
            THEN IF datom.v \in DOMAIN @[datom.a]
                 THEN DictSet(@, datom.a, DictAppend(@[datom.a], datom.v, datom))
                 ELSE IF datom.a \in self.attr_val_index_complete
                      THEN DictSet(@, datom.a, DictSet(@[datom.a], datom.v, <<datom>>))
                      ELSE @
            ELSE @,
        !.entity_index = IF datom.e \in DOMAIN @ THEN DictAppend(@, datom.e, datom) ELSE @]

(***************************************************************************)
(* facts.py: the Facts staging buffer.                                     *)
(***************************************************************************)
Fact(entity, attribute, value, op) == [e |-> entity, a |-> attribute, v |-> value, op |-> op]

\* Facts.add
Add(fs, entity, attribute, value) == Append(fs, Fact(entity, attribute, value, TRUE))

\* Facts.remove
Remove(fs, entity, attribute, value) == Append(fs, Fact(entity, attribute, value, FALSE))

\* Facts.replace
Replace(fs, entity, attribute, old_value, new_value) ==
    Append(Append(fs, Fact(entity, attribute, old_value, FALSE)),
           Fact(entity, attribute, new_value, TRUE))

\* Facts._generate_entity: str(uuid4()), a string no other temp-id of the
\* buffer has
UuidPool == <<"uuid-1", "uuid-2", "uuid-3", "uuid-4", "uuid-5", "uuid-6">>

GenerateEntity(fs) ==
    LET used == {fs[i].e.s : i \in 1..Len(fs)}
        free == {i \in 1..Len(UuidPool) : UuidPool[i] \notin used}
    IN RStr(UuidPool[CHOOSE i \in free : \A j \in free : i <= j])

RECURSIVE AddAll(_, _, _, _)
AddAll(fs, entity, dct, i) ==
    IF i > Len(dct) THEN fs
    ELSE AddAll(Add(fs, entity, dct[i][1], dct[i][2]), entity, dct, i + 1)

\* Facts.add_set; dct = the (attribute, value) pairs of the dict in order
AddSet(fs, entity, dct) ==
    AddAll(fs, IF entity.k = "none" THEN GenerateEntity(fs) ELSE entity, dct, 1)

(***************************************************************************)
(* The inputs of the model.                                                *)
(***************************************************************************)
\* the value now() returns
Times == {1}

\* the schema the database starts with, staged as in the first transaction
\* of the example script: pid (string, one, unique value), tag (string,
\* many), nm (string, one)
SchemaFacts ==
    AddSet(AddSet(AddSet(<<>>,
        RNone, << <<"db/ident", StrV("pid")>>, <<"db/valueType", StrV("db.type/string")>>,
                  <<"db/cardinality", StrV("db.cardinality/one")>>,
                  <<"db/unique", StrV("db.unique/value")>> >>),
        RNone, << <<"db/ident", StrV("tag")>>, <<"db/valueType", StrV("db.type/string")>>,
                  <<"db/cardinality", StrV("db.cardinality/many")>> >>),
        RNone, << <<"db/ident", StrV("nm")>>, <<"db/valueType", StrV("db.type/string")>>,
                  <<"db/cardinality", StrV("db.cardinality/one")>> >>)

\* the arguments of Facts.add
AddArgs ==
    { <<RStr("x"), "pid", StrV("A")>>, <<RStr("y"), "pid", StrV("A")>>,
      <<RStr("x"), "tag", StrV("A")>>, <<RStr("x"), "tag", StrV("B")>>,
      <<RNone, "nm", StrV("A")>>, <<RInt(-1), "nm", StrV("A")>>,
      <<RInt(3), "db/unique", StrV("db.unique/value")>>,
      <<RStr("datomic.tx"), "db/doc", StrV("A")>>,
      <<RStr("x"), "db/ident", StrV("pid")>>, <<RStr("x"), "db/ident", StrV("new")>> }

\* the arguments of Facts.remove
RemoveArgs ==
    { <<RStr("x"), "tag", StrV("A")>>, <<RLookup("pid", StrV("A")), "pid", StrV("A")>> }

\* the arguments of Facts.replace
ReplaceArgs ==
    { <<RInt(2), "db/cardinality", StrV("db.cardinality/many"), StrV("db.cardinality/one")>> }

\* the arguments of Facts.add_set
AddSetArgs ==
    { <<RNone, << <<"pid", StrV("A")>>, <<"nm", StrV("A")>> >> >> }

\* a schema with a reference attribute, staged as the definitions of the
\* example script are: nm (string, one, unique value), tag (string, many),
\* rf (ref, one)
DataSchemaFacts ==
    AddSet(AddSet(AddSet(<<>>,
        RNone, << <<"db/ident", StrV("nm")>>, <<"db/valueType", StrV("db.type/string")>>,
                  <<"db/cardinality", StrV("db.cardinality/one")>>,
                  <<"db/unique", StrV("db.unique/value")>> >>),
        RNone, << <<"db/ident", StrV("tag")>>, <<"db/valueType", StrV("db.type/string")>>,
                  <<"db/cardinality", StrV("db.cardinality/many")>> >>),
        RNone, << <<"db/ident", StrV("rf")>>, <<"db/valueType", StrV("db.type/ref")>>,
                  <<"db/cardinality", StrV("db.cardinality/one")>> >>)

\* the arguments of Facts.add, Facts.remove and Facts.replace on that schema;
\* 5 is the first entity a transaction after the schema creates
DataAddArgs ==
    { <<RStr("x"), "nm", StrV("A")>>, <<RStr("y"), "nm", StrV("B")>>,
      <<RStr("x"), "tag", StrV("A")>>, <<RStr("y"), "rf", IntV(5)>> }

DataRemoveArgs ==
    { <<RInt(5), "nm", StrV("A")>>, <<RStr("x"), "nm", StrV("A")>>,
      <<RInt(5), "tag", StrV("A")>>, <<RStr("x"), "tag", StrV("A")>> }

DataReplaceArgs ==
    { <<RInt(5), "nm", StrV("A"), StrV("B")>> }

(***************************************************************************)
(* The state: log = the documents of the 'datoms' collection; facts = the  *)
(* caller's Facts buffer; held = the Database value the caller keeps, with *)
(* what its reads returned when it was obtained; res = what the last       *)
(* transact or as_if call returned.                                        *)
(***************************************************************************)
\* a read of the public API as the caller sees it: its value, or the error
Outcome(r) == IF r.ok THEN <<"ok", r.val>> ELSE <<"raise", r.err>>

\* get(e) of the entities from e on, one call after the other on the same
\* Database object: each call starts from the cache the call before left
RECURSIVE GetEach(_, _, _, _)
GetEach(vw, cn, e, acc) ==
    IF e \notin Entities(vw) THEN [cn |-> cn, get |-> acc]
    ELSE Then(Get(vw, cn, {}, e), LAMBDA d :
         IF d.ok
         THEN GetEach(vw, d.cn, e + 1, [x \in DOMAIN acc \cup {e} |->
                                           IF x = e THEN <<"ok", d.val>> ELSE acc[x]])
         ELSE GetEach(vw, d.cn, e + 1, [x \in DOMAIN acc \cup {e} |->
                                           IF x = e THEN <<"raise", d.err>> ELSE acc[x]]))

\* all_facts(), entities(), and facts(e), get(e) of every entity, on a
\* Database object whose _attr_def_cache holds the names cn
Reads(db, lg, cn) ==
    Then(View(db, lg), LAMBDA vw :
        [all_facts |-> AllFacts(vw),
         entities |-> Entities(vw),
         facts |-> [e \in Entities(vw) |-> FactsOf(vw, e)],
         get |-> GetEach(vw, cn, 0, NoNames).get])

NoHeld == [some |-> FALSE, db |-> NoDb, cn |-> NoCache, reads |-> <<>>]

\* the caller keeps the Database object db and reads it: cn = the cache its
\* first reads leave, reads = what its reads return from then on
Hold(db, lg) ==
    Then(GetEach(View(db, lg), NoCache, 0, NoNames).cn, LAMBDA cn :
        [some |-> TRUE, db |-> db, cn |-> cn, reads |-> Reads(db, lg, cn)])

Boot == TransactCall(<<>>, SchemaFacts, CHOOSE t \in Times : TRUE)

Init ==
    /\ \E r \in {Boot} :
          /\ log = r.log
          /\ res = r.res
    /\ facts = SchemaFacts
    /\ held = NoHeld

\* the documents a call may still add within the bound cap; a buffer is
\* staged only while a call can still take it (with its db/txInstant datom)
Room(cap) == cap - Len(log) - Len(held.db.with)

\* f = Facts()
FactsNew ==
    /\ facts # <<>>
    /\ facts' = <<>>
    /\ res' = NoRes
    /\ UNCHANGED <<log, held>>

\* f.add(entity, attribute, value) with arguments of args
FactsAddUpTo(args, max, cap) ==
    /\ Len(facts) + 1 <= max
    /\ Len(facts) + 2 <= Room(cap)
    /\ \E x \in args : facts' = Add(facts, x[1], x[2], x[3])
    /\ res' = NoRes
    /\ UNCHANGED <<log, held>>

FactsAddOf(args, cap) == FactsAddUpTo(args, MaxFacts, cap)

FactsAdd(cap) == FactsAddOf(AddArgs, cap)

\* f.remove(entity, attribute, value) with arguments of args
FactsRemoveUpTo(args, max, cap) ==
    /\ Len(facts) + 1 <= max
    /\ Len(facts) + 2 <= Room(cap)
    /\ \E x \in args : facts' = Remove(facts, x[1], x[2], x[3])
    /\ res' = NoRes
    /\ UNCHANGED <<log, held>>

FactsRemoveOf(args, cap) == FactsRemoveUpTo(args, MaxFacts, cap)

FactsRemove(cap) == FactsRemoveOf(RemoveArgs, cap)

\* f.replace(entity, attribute, old_value, new_value) with arguments of args
FactsReplaceUpTo(args, max, cap) ==
    /\ Len(facts) + 2 <= max
    /\ Len(facts) + 3 <= Room(cap)
    /\ \E x \in args : facts' = Replace(facts, x[1], x[2], x[3], x[4])
    /\ res' = NoRes
    /\ UNCHANGED <<log, held>>

FactsReplaceOf(args, cap) == FactsReplaceUpTo(args, MaxFacts, cap)

FactsReplace(cap) == FactsReplaceOf(ReplaceArgs, cap)

\* f.add_set(entity, dct) with arguments of args, up to max facts staged
FactsAddSetOf(args, max, cap) ==
    /\ \E x \in args :
          /\ Len(facts) + Len(x[2]) <= max
          /\ Len(facts) + Len(x[2]) + 1 <= Room(cap)
          /\ facts' = AddSet(facts, x[1], x[2])
    /\ res' = NoRes
    /\ UNCHANGED <<log, held>>

FactsAddSet(cap) == FactsAddSetOf(AddSetArgs, MaxFacts, cap)

\* conn.transact(facts)
Transact(cap) ==
    /\ Len(facts) + 1 <= Room(cap)
    /\ \E time \in Times : \E r \in {TransactCall(log, facts, time)} :
          /\ log' = r.log
          /\ res' = r.res
    /\ UNCHANGED <<facts, held>>

\* db = conn.db(): the caller keeps the current database value
Db ==
    /\ ~held.some
    /\ held' = Hold(ConnDb(log), log)
    /\ res' = NoRes
    /\ UNCHANGED <<log, facts>>

\* held.as_if(facts); the caller goes on with the receiver or with db_after
AsIf(cap) ==
    /\ held.some
    /\ Len(facts) + 1 <= Room(cap)
    /\ \E time \in Times, keep \in BOOLEAN : \E r \in {AsIfCall(held.db, log, facts, time)} :
          /\ res' = r
          /\ held' = IF keep /\ r.ok THEN Hold(r.db_after, log)
                     ELSE [held EXCEPT !.db = r.self]
    /\ UNCHANGED <<log, facts>>

\* a connection and a caller that holds a database value
Next ==
    \/ FactsNew
    \/ FactsAdd(MaxDatoms)
    \/ FactsRemove(MaxDatoms)
    \/ FactsReplace(MaxDatoms)
    \/ FactsAddSet(MaxDatoms)
    \/ Transact(MaxDatoms)
    \/ Db
    \/ AsIf(MaxDatoms)

Spec == Init /\ [][Next]_vars

\* a connection alone: the database values reachable by transact calls
NextConn ==
    \/ FactsNew
    \/ FactsAdd(MaxLog)
    \/ FactsRemove(MaxLog)
    \/ FactsReplace(MaxLog)
    \/ FactsAddSet(MaxLog)
    \/ Transact(MaxLog)

SpecConn == Init /\ [][NextConn]_vars

\* what a read call on the Database value db returned: r = its result
ReadResult(op, db, arg, r) ==
    [op |-> op, ok |-> r.ok, err |-> r.err, db |-> db, arg |-> arg, val |-> r.val]

\* most documents of the log and the held overlay where values are read
MaxRead == 15

\* held.as_of(tx_id)
AsOf ==
    /\ held.some
    /\ \E tx_id \in -1..(TxMax(held.db) + 1) :
          res' = ReadResult("as_of", held.db, tx_id, AsOfCall(held.db, log, tx_id))
    /\ UNCHANGED <<log, facts, held>>

\* a connection and a caller that travels in time on the value it holds
NextAsOf ==
    \/ FactsNew
    \/ FactsAdd(MaxRead)
    \/ FactsRemove(MaxRead)
    \/ FactsReplace(MaxRead)
    \/ FactsAddSet(MaxRead)
    \/ Transact(MaxRead)
    \/ Db
    \/ AsIf(MaxRead)
    \/ AsOf

SpecAsOf == Init /\ [][NextAsOf]_vars

\* the first transaction of the schema with a reference attribute
BootData == TransactCall(<<>>, DataSchemaFacts, CHOOSE t \in Times : TRUE)

InitData ==
    /\ \E r \in {BootData} :
          /\ log = r.log
          /\ res = r.res
    /\ facts = DataSchemaFacts
    /\ held = NoHeld

\* the documents of the log of the connection with a reference attribute
MaxData == 18

\* a connection whose entities are added to, retracted from and replaced
NextData ==
    \/ FactsNew
    \/ FactsAddOf(DataAddArgs, MaxData)
    \/ FactsRemoveOf(DataRemoveArgs, MaxData)
    \/ FactsReplaceOf(DataReplaceArgs, MaxData)
    \/ Transact(MaxData)

SpecData == InitData /\ [][NextData]_vars

\* the criteria of find(): none, one value, the same two keys in both
\* orders, a db/txInstant value, and the list a cardinality-many attribute
\* holds as the first and as the second key
FindCriteria ==
    { <<>>,
      <<CVal("nm", StrV("A"))>>,
      <<CAny("pid"), CVal("nm", StrV("A"))>>,
      <<CVal("nm", StrV("A")), CAny("pid")>>,
      <<CVal("db/txInstant", IntV(1))>>,
      <<CList("tag", <<StrV("A")>>), CAny("pid")>>,
      <<CAny("pid"), CList("tag", <<StrV("A")>>)>> }

\* held.find(criteria)
FindOn ==
    /\ held.some
    /\ \E criteria \in FindCriteria :
          res' = ReadResult("find", held.db, criteria,
                            Find(View(held.db, log), held.cn, criteria))
    /\ UNCHANGED <<log, facts, held>>

\* held.states(entity), for the entities of entities() and every entity
\* that has datoms
StatesOf ==
    /\ held.some
    /\ \E entity \in Entities(View(held.db, log)) \cup {d.e : d \in Range(held.db.with)}
                        \cup {log[i].e : i \in 1..Len(log)} :
          res' = ReadResult("states", held.db, entity,
                            States(View(held.db, log), held.cn, entity))
    /\ UNCHANGED <<log, facts, held>>

\* a connection and a caller that runs find() on the value it holds
NextFind ==
    \/ FactsNew
    \/ FactsAdd(MaxRead)
    \/ FactsRemove(MaxRead)
    \/ FactsReplace(MaxRead)
    \/ FactsAddSet(MaxRead)
    \/ Transact(MaxRead)
    \/ Db
    \/ AsIf(MaxRead)
    \/ FindOn

SpecFind == Init /\ [][NextFind]_vars

\* a connection and a caller that runs states() on the value it holds
NextStates ==
    \/ FactsNew
    \/ FactsAdd(MaxRead)
    \/ FactsRemove(MaxRead)
    \/ FactsReplace(MaxRead)
    \/ FactsAddSet(MaxRead)
    \/ Transact(MaxRead)
    \/ Db
    \/ AsIf(MaxRead)
    \/ StatesOf

SpecStates == Init /\ [][NextStates]_vars

\* the values the clock util.now() takes and the times transaction_at is
\* asked for
ClockTimes == {1, 2}
AskedTimes == 0..3

\* the documents of the log and the held overlay where the clock advances
MaxTime == 16

\* the clock value of the newest transaction of the datoms ds: the clock
\* never runs backwards
LastClock(ds) ==
    max_default({ds[i].v.n : i \in {i \in 1..Len(ds) :
                    ds[i].a = "db/txInstant" /\ ds[i].e = ds[i].tx}}, 0)

\* the arguments of Facts.add and Facts.replace of a caller that also
\* states db/txInstant itself
TimeAddArgs ==
    { <<RStr("x"), "nm", StrV("A")>>, <<RStr("x"), "db/txInstant", IntV(0)>> }

TimeReplaceArgs == { <<RInt(0), "db/txInstant", IntV(1), IntV(3)>> }

\* conn.transact(facts) at a clock value not before the last one
TransactClock(cap) ==
    /\ Len(facts) + 1 <= Room(cap)
    /\ \E time \in ClockTimes : \E r \in {TransactCall(log, facts, time)} :
          /\ time >= LastClock(log)
          /\ log' = r.log
          /\ res' = r.res
    /\ UNCHANGED <<facts, held>>

\* held.as_if(facts) at a clock value not before the last one; the caller
\* goes on with db_after
AsIfClock(cap) ==
    /\ held.some
    /\ Len(facts) + 1 <= Room(cap)
    /\ \E time \in ClockTimes : \E r \in {AsIfCall(held.db, log, facts, time)} :
          /\ time >= LastClock(log \o held.db.with)
          /\ res' = r
          /\ held' = IF r.ok THEN Hold(r.db_after, log) ELSE [held EXCEPT !.db = r.self]
    /\ UNCHANGED <<log, facts>>

\* held.transaction_at(time)
TransactionAt ==
    /\ held.some
    /\ \E time \in AskedTimes :
          res' = ReadResult("transaction_at", held.db, time,
                            transaction_at(View(held.db, log), time))
    /\ UNCHANGED <<log, facts, held>>

\* a connection whose clock advances and a caller that asks the value it
\* holds for the transaction at a time
NextTime ==
    \/ FactsNew
    \/ FactsAddOf(TimeAddArgs, MaxTime)
    \/ FactsReplaceOf(TimeReplaceArgs, MaxTime)
    \/ TransactClock(MaxTime)
    \/ Db
    \/ AsIfClock(MaxTime)
    \/ TransactionAt

SpecTime == Init /\ [][NextTime]_vars

\* scenario S1: the definitions of provider/id and provider/name and the
\* provider 'apple', staged with add_set as in the example script
S1ProviderId ==
    << <<"db/ident", StrV("provider/id")>>, <<"db/valueType", StrV("db.type/string")>>,
       <<"db/cardinality", StrV("db.cardinality/one")>>,
       <<"db/unique", StrV("db.unique/value")>> >>

S1ProviderName ==
    << <<"db/ident", StrV("provider/name")>>, <<"db/valueType", StrV("db.type/string")>>,
       <<"db/cardinality", StrV("db.cardinality/one")>> >>

S1Apple == << <<"provider/id", StrV("AAPL")>>, <<"provider/name", StrV("Apple")>> >>

S1AddSetArgs ==
    { <<RNone, S1ProviderId>>, <<RNone, S1ProviderName>>, <<RStr("apple"), S1Apple>> }

\* the facts of one buffer and the documents of the log in scenario S1
MaxS1Facts == 7
MaxS1 == 11

\* an empty database
InitS1 ==
    /\ log = <<>>
    /\ facts = <<>>
    /\ held = NoHeld
    /\ res = NoRes

\* conn.db().get(['provider/id', 'AAPL'])
GetProvider ==
    /\ res' = ReadResult("get", ConnDb(log), RLookup("provider/id", StrV("AAPL")),
                         GetRef(View(ConnDb(log), log), NoCache, "provider/id", StrV("AAPL")))
    /\ UNCHANGED <<log, facts, held>>

\* a caller that stages the sets of scenario S1 in any order, transacts
\* them and looks the provider up
NextS1 ==
    \/ FactsNew
    \/ FactsAddSetOf(S1AddSetArgs, MaxS1Facts, MaxS1)
    \/ Transact(MaxS1)
    \/ GetProvider

SpecS1 == InitS1 /\ [][NextS1]_vars

\* a caller that defines and alters attributes and uses them in the same
\* buffer: the definition of the attribute new (string, many), a use of new,
\* of the undefined attribute un and of tag and nm, tag made cardinality
\* one, nm made unique, and an entity given the db/ident new alone
SchemaAddSetArgs ==
    { <<RNone, << <<"db/ident", StrV("new")>>, <<"db/valueType", StrV("db.type/string")>>,
                  <<"db/cardinality", StrV("db.cardinality/many")>> >> >> }

SchemaAddArgs ==
    { <<RStr("x"), "new", StrV("A")>>, <<RStr("x"), "un", StrV("A")>>,
      <<RStr("x"), "tag", StrV("A")>>, <<RStr("x"), "tag", StrV("B")>>,
      <<RStr("x"), "nm", StrV("A")>>, <<RStr("y"), "nm", StrV("A")>>,
      <<RInt(3), "db/unique", StrV("db.unique/value")>>,
      <<RStr("z"), "db/ident", StrV("new")>> }

SchemaReplaceArgs ==
    { <<RInt(2), "db/cardinality", StrV("db.cardinality/many"), StrV("db.cardinality/one")>> }

\* the facts of one buffer and the documents of the log where the schema is
\* altered
MaxSchemaFacts == 4
MaxSchema == 16

NextSchema ==
    \/ FactsNew
    \/ FactsAddSetOf(SchemaAddSetArgs, MaxSchemaFacts, MaxSchema)
    \/ FactsAddUpTo(SchemaAddArgs, MaxSchemaFacts, MaxSchema)
    \/ FactsReplaceUpTo(SchemaReplaceArgs, MaxSchemaFacts, MaxSchema)
    \/ Transact(MaxSchema)

SpecSchema == Init /\ [][NextSchema]_vars

\* a caller that addresses facts to the lookup ref ['pid', 'A']
LookupAddArgs ==
    { <<RStr("x"), "pid", StrV("A")>>, <<RLookup("pid", StrV("A")), "tag", StrV("A")>>,
      <<RLookup("pid", StrV("A")), "tag", StrV("B")>> }

LookupRemoveArgs ==
    { <<RLookup("pid", StrV("A")), "pid", StrV("A")>>,
      <<RLookup("pid", StrV("A")), "tag", StrV("A")>> }

\* the documents of the log where lookup refs are resolved
MaxLookup == 19

NextLookup ==
    \/ FactsNew
    \/ FactsAddOf(LookupAddArgs, MaxLookup)
    \/ FactsRemoveOf(LookupRemoveArgs, MaxLookup)
    \/ Transact(MaxLookup)

SpecLookup == Init /\ [][NextLookup]_vars

\* most datoms the validator applies to its private Database
MaxApplied == 2

\* the transaction the log holds before the validated one: an entity with
\* pid A and tag A
CacheDataFacts == Add(Add(<<>>, RStr("x"), "pid", StrV("A")), RStr("x"), "tag", StrV("A"))

\* the validator's private Database: _applicative_copy of the value db
Validator(db) ==
    [some |-> TRUE, db |-> db, cn |-> NoCache, reads |-> <<>>, copy |-> IndexedCopy(db)]

\* _validate_transaction has made its copy of the current database value,
\* or of the value before the last transaction
InitCache ==
    /\ \E r \in {TransactCall(Boot.log, CacheDataFacts, CHOOSE t \in Times : TRUE)} :
          /\ log = r.log
          /\ \E db \in {ConnDb(r.log), ConnDb(Boot.log)} : held = Validator(db)
    /\ facts = <<>>
    /\ res = NoRes

\* the datoms the copy holds
Applied == held.copy.with_datoms.datoms

\* a fresh Database over the same remote snapshot and the same buffer
FreshView == View([held.db EXCEPT !.with = Applied], log)

\* (e, a, v, op) of the datoms applied: the entity of the log and a new one
AppliedArgs ==
    { <<5, "pid", StrV("B"), TRUE>>, <<7, "pid", StrV("A"), TRUE>>,
      <<7, "db/ident", StrV("new"), TRUE>>, <<5, "tag", StrV("A"), FALSE>>,
      <<7, "tag", StrV("A"), TRUE>> }

\* the keys the reads of the validator ask for
ReadAttributes == {"db/ident"}
ReadAttributeValues == { <<"db/ident", StrV("new")>>, <<"pid", StrV("A")>> }
ReadEntitySets == { {5}, {5, 7} }
ReadLocalAttributes == {"pid"}
ReadLocalEntities == {7}

\* db._apply_datom(datom) of the validation loop
ApplyDatomStep ==
    /\ Len(Applied) < MaxApplied
    /\ \E x \in AppliedArgs :
          held' = [held EXCEPT !.copy = ApplyDatomIndexed(@,
                      Datom(GetMaxId(FreshView) + 1, x[1], x[2], x[3],
                            GetMaxEntityId(View(held.db, log)) + 1, x[4]))]
    /\ res' = NoRes
    /\ UNCHANGED <<log, facts>>

\* a read of the copy: the object and the value returned
ReadCopy(op, arg, r) ==
    /\ held' = [held EXCEPT !.copy = r.self]
    /\ res' = ReadResult(op, held.db, arg, Ok(r.val))
    /\ UNCHANGED <<log, facts>>

ReadLocal(op, arg, r) ==
    /\ held' = [held EXCEPT !.copy.with_datoms = r.self]
    /\ res' = ReadResult(op, held.db, arg, Ok(r.val))
    /\ UNCHANGED <<log, facts>>

\* _find_attribute_value(a, None), as find({'db/ident': None}) calls it
ReadFindAttribute ==
    \E a \in ReadAttributes :
        ReadCopy("find_attribute", a, FindAttributeCached(held.copy, log, a))

\* _find_attribute_value(a, v), as _lookup_direct calls it
ReadFindAttributeValue ==
    \E x \in ReadAttributeValues :
        ReadCopy("find_attribute_value", x,
                 FindAttributeValueCached(held.copy, log, x[1], x[2]))

\* _facts_multi_entity(entities), as get and _find_candidates call it
ReadFactsMultiEntity ==
    \E E \in ReadEntitySets :
        ReadCopy("facts_multi_entity", E, FactsMultiEntityCached(held.copy, log, E))

ReadFactsByAttribute ==
    \E a \in ReadLocalAttributes :
        ReadLocal("facts_by_attribute", a, facts_by_attribute(held.copy.with_datoms, a))

ReadFactsByAttributeValue ==
    \E x \in ReadAttributeValues :
        ReadLocal("facts_by_attribute_value", x,
                  facts_by_attribute_value(held.copy.with_datoms, x[1], x[2]))

ReadFactsByEntity ==
    \E e \in ReadLocalEntities :
        ReadLocal("facts_by_entity", e, facts_by_entity(held.copy.with_datoms, e))

ReadTxMax == ReadLocal("tx_max", <<>>, TxMaxCached(held.copy.with_datoms))

ReadMaxKey ==
    \E key \in {"e", "_id"} :
        ReadLocal("max_key", key, MaxKeyCached(held.copy.with_datoms, key))

\* reads and _apply_datom calls on the validator's private Database
NextCache ==
    \/ ApplyDatomStep
    \/ ReadFindAttribute
    \/ ReadFindAttributeValue
    \/ ReadFactsMultiEntity
    \/ ReadFactsByAttribute
    \/ ReadFactsByAttributeValue
    \/ ReadFactsByEntity
    \/ ReadTxMax
    \/ ReadMaxKey

SpecCache == InitCache /\ [][NextCache]_vars

\* most documents of the log and the held overlay where since() and
\* history() are called
MaxSince == 13

\* the tx_id since() is called with: the first transaction and the last one
\* of the value
SinceTxIds(db) == {0, TxMax(db)}

\* held.since(tx_id); the caller goes on with the receiver or with the value
\* returned
SinceOn ==
    /\ held.some
    /\ \E tx_id \in SinceTxIds(held.db), keep \in BOOLEAN :
          \E db \in {Since(held.db, tx_id)} :
              /\ res' = ReadResult("since", held.db, tx_id, Ok(db))
              /\ held' = IF keep THEN Hold(db, log) ELSE held
    /\ UNCHANGED <<log, facts>>

\* held.history(); the caller goes on with the receiver or with the value
\* returned
HistoryOn ==
    /\ held.some
    /\ \E keep \in BOOLEAN : \E db \in {History(held.db)} :
          /\ res' = ReadResult("history", held.db, <<>>, Ok(db))
          /\ held' = IF keep THEN Hold(db, log) ELSE held
    /\ UNCHANGED <<log, facts>>

\* a connection and a caller that calls since() and history() on the value
\* it holds
NextSince ==
    \/ FactsNew
    \/ FactsAdd(MaxSince)
    \/ FactsRemove(MaxSince)
    \/ Transact(MaxSince)
    \/ Db
    \/ AsIf(MaxSince)
    \/ SinceOn
    \/ HistoryOn

SpecSince == Init /\ [][NextSince]_vars

\* two callers of Connection.transact on one database: held[w] = where the
\* call of w stands (pc), and its locals db_before, facts, tx_data,
\* lst_mongo; res = the last write batch handed to the backend
MaxRace == 14

Writers == {1, 2}

\* the buffers the callers transact
RaceBuffers ==
    { Add(<<>>, RStr("x"), "pid", StrV("A")),
      Add(<<>>, RStr("x"), "tag", StrV("A")),
      Add(<<>>, RInt(99), "nm", StrV("A")) }

IdleCall == [pc |-> "idle", db_before |-> NoDb, facts |-> <<>>, tx_data |-> <<>>,
             temp_ids |-> NoNames, lst_mongo |-> <<>>, db_after |-> NoDb]

\* the backend's insert of the documents operations[i..] one after the
\* other: the collection holds one document per _id, and the first insert
\* with an _id the collection holds already ends the batch with an error
RECURSIVE InsertFrom(_, _, _)
InsertFrom(lg, operations, i) ==
    IF i > Len(operations) THEN [ok |-> TRUE, log |-> lg]
    ELSE IF \E j \in 1..Len(lg) : lg[j].id = operations[i].id
    THEN [ok |-> FALSE, log |-> lg]
    ELSE InsertFrom(Append(lg, operations[i]), operations, i + 1)

\* a transact that reads db() again before it writes and prepares the batch
\* again when the database has moved on
OperationsRechecked(call, lg, time) ==
    IF ConnDb(lg) = call.db_before THEN call.lst_mongo
    ELSE Then(TransactCall(lg, call.facts, time), LAMBDA r :
             IF r.res.ok THEN SubSeq(r.log, Len(lg) + 1, Len(r.log)) ELSE <<>>)

\* the operations list transact hands to bulk_write: one InsertOne per
\* document of lst_mongo
Operations(call, lg, time) == call.lst_mongo

InitRace ==
    /\ \E r \in {Boot} : log = r.log
    /\ facts = <<>>
    /\ held = [w \in Writers |-> IdleCall]
    /\ res = [op |-> "none", w |-> 0, ok |-> FALSE, operations |-> <<>>, log_before |-> <<>>]

\* transact: db_before = self.db()
TransactDb(w) ==
    /\ held[w].pc \in {"idle", "returned", "raised"}
    /\ Len(log) < MaxRace
    /\ \E fs \in RaceBuffers :
          held' = [held EXCEPT ![w] = [IdleCall EXCEPT !.pc = "db", !.db_before = ConnDb(log),
                                                       !.facts = fs]]
    /\ UNCHANGED <<log, facts, res>>

\* transact: tx_data, temp_ids = db_before._transaction_data(facts)
TransactData(w) ==
    /\ held[w].pc = "db"
    /\ \E time \in Times :
       \E td \in {TransactionData(View(held[w].db_before, log), held[w].facts, time)} :
          held' = [held EXCEPT ![w] =
                      IF td.ok
                      THEN [@ EXCEPT !.pc = "data", !.tx_data = td.val.tx_data,
                                     !.temp_ids = td.val.temp_ids]
                      ELSE [@ EXCEPT !.pc = "raised"]]
    /\ UNCHANGED <<log, facts, res>>

\* transact: lst_mongo = db_before._validate_transaction(tx_data)
TransactValidate(w) ==
    /\ held[w].pc = "data"
    /\ \E v \in {ValidateTransaction(held[w].db_before, log, held[w].tx_data)} :
          held' = [held EXCEPT ![w] =
                      IF v.ok THEN [@ EXCEPT !.pc = "validated", !.lst_mongo = v.val]
                      ELSE [@ EXCEPT !.pc = "raised"]]
    /\ UNCHANGED <<log, facts, res>>

\* transact: self._datoms.bulk_write(operations)
TransactWrite(w) ==
    /\ held[w].pc = "validated"
    /\ \E time \in Times : \E operations \in {Operations(held[w], log, time)} :
       \E b \in {InsertFrom(log, operations, 1)} :
          /\ log' = b.log
          /\ res' = [op |-> "bulk_write", w |-> w, ok |-> b.ok, operations |-> operations,
                     log_before |-> log]
          /\ held' = [held EXCEPT ![w].pc = IF b.ok THEN "written" ELSE "raised"]
    /\ UNCHANGED facts

\* transact: db_after = self.db(), and the return
TransactReturn(w) ==
    /\ held[w].pc = "written"
    /\ held' = [held EXCEPT ![w].pc = "returned", ![w].db_after = ConnDb(log)]
    /\ UNCHANGED <<log, facts, res>>

NextRace ==
    \E w \in Writers :
        \/ TransactDb(w)
        \/ TransactData(w)
        \/ TransactValidate(w)
        \/ TransactWrite(w)
        \/ TransactReturn(w)

SpecRace == InitRace /\ [][NextRace]_vars

\* a caller that uses the attributes tag and nm and retracts and restores
\* the db/ident of tag (entity 2); 5 is the first entity a transaction after
\* the schema creates
IdentAddArgs ==
    { <<RStr("x"), "tag", StrV("A")>>, <<RStr("x"), "nm", StrV("A")>>,
      <<RInt(2), "db/ident", StrV("tag")>> }

IdentRemoveArgs ==
    { <<RInt(2), "db/ident", StrV("tag")>>, <<RInt(5), "tag", StrV("A")>> }

\* the documents of the log where a db/ident is retracted
MaxIdent == 17

NextIdent ==
    \/ FactsNew
    \/ FactsAddUpTo(IdentAddArgs, MaxFacts, MaxIdent)
    \/ FactsRemoveUpTo(IdentRemoveArgs, MaxFacts, MaxIdent)
    \/ Transact(MaxIdent)

SpecIdent == Init /\ [][NextIdent]_vars

\* _get_attr_def step by step.  held = one Database object db with its
\* _attr_def_cache cn and the call stack of a get(entity) in progress: a
\* sequence of frames, the running one last.  A frame is a call of
\* _get_attr_def(name), of find({'db/ident': None}) or of
\* _active_facts_to_dict(active); ret = the value the frame that returned
\* last gave to its caller; out = how the call of get ended.
\* RecursionLimit stands for sys.getrecursionlimit(): a call that would make
\* the stack deeper raises RecursionError.
RecursionLimit == 6

\* the documents of the log where attribute definitions are read step by step
MaxAttrDef == 15

\* a caller that uses tag and nm and gives the entity that defines tag
\* (entity 2) a value of nm
AttrDefAddArgs ==
    { <<RStr("x"), "tag", StrV("A")>>, <<RStr("x"), "nm", StrV("A")>>,
      <<RInt(2), "nm", StrV("A")>> }

Frame(fn, pc, name, e, order, active, i, d) ==
    [fn |-> fn, pc |-> pc, name |-> name, e |-> e, order |-> order, active |-> active,
     i |-> i, d |-> d]

GetAttrDefFrame(name) == Frame("_get_attr_def", "start", name, -1, <<>>, <<>>, 0, EmptyDict)

FindFrame(order) == Frame("find", "next", "", -1, order, <<>>, 1, EmptyDict)

ActiveFactsToDictFrame(active) ==
    Frame("_active_facts_to_dict", "next", "", -1, <<>>, active, 1, EmptyDict)

NoCall == [some |-> FALSE, db |-> NoDb, cn |-> NoCache, pc |-> "idle", entity |-> -1,
           stack |-> <<>>, ret |-> <<>>, out |-> <<>>]

InitAttrDef ==
    /\ \E r \in {Boot} :
          /\ log = r.log
          /\ res = r.res
    /\ facts = SchemaFacts
    /\ held = NoCall

Top(h) == h.stack[Len(h.stack)]

\* the running frame becomes f
SetTop(h, f) == [h EXCEPT !.stack = [@ EXCEPT ![Len(@)] = f]]

\* an exception: nothing on the stack catches it, the call of get ends
Raise(h, err) == [h EXCEPT !.stack = <<>>, !.pc = "done", !.out = <<"raise", err>>]

\* the running frame, left as f, calls callee
Call(h, f, callee) ==
    IF Len(h.stack) >= RecursionLimit THEN Raise(h, "RecursionError")
    ELSE [h EXCEPT !.stack = Append([@ EXCEPT ![Len(@)] = f], callee)]

\* the running frame returns x to its caller, or to the caller of get
Return(h, x) ==
    IF Len(h.stack) = 1
    THEN [h EXCEPT !.stack = <<>>, !.pc = "done", !.out = <<"ok", x>>]
    ELSE [h EXCEPT !.stack = SubSeq(@, 1, Len(@) - 1), !.ret = x]

\* _get_from_facts(fs) called by the running frame, left as f
CallGetFromFacts(h, f, fs) ==
    Then(GetActiveFacts(fs), LAMBDA active :
        IF ~active.ok THEN Raise(h, active.err)
        ELSE Call(h, f, ActiveFactsToDictFrame(active.val)))

\* _get_attr_def(name), from the test of the cache on
GetAttrDefLookup(h, vw, f) ==
    IF InCache(h.cn, f.name) THEN Return(h, CachedAttr(h.cn, f.name))
    ELSE Then(LookupDirect(vw, "db/ident", StrV(f.name)), LAMBDA e :
         IF ~e.ok THEN Raise(h, e.err)
         ELSE IF e.val = <<>> THEN Raise(h, "ValueError:attribute is not defined")
         ELSE CallGetFromFacts(h, [f EXCEPT !.pc = "get", !.e = e.val[1]],
                               FactsOf(vw, e.val[1])))

\* one step of the running frame of _get_attr_def
GetAttrDefStep(h, vw, f) ==
    IF f.pc = "start"
    THEN IF f.name \in BuiltinNames THEN Return(h, builtin_attr_dict[f.name])
         ELSE IF h.cn = NoCache
         THEN Call(h, [f EXCEPT !.pc = "init"], FindFrame(SetOrder(IdentCandidates(vw))))
         ELSE GetAttrDefLookup(h, vw, f)
    ELSE IF f.pc = "init"
    THEN Then(h.ret, LAMBDA result :
         Then(SetOrder(DOMAIN result), LAMBDA order :
         Then(CacheFill(order, 1, result, [e \in DOMAIN result |-> from_dict(result[e])],
                        NoCache), LAMBDA filled :
             IF ~filled.ok THEN Raise([h EXCEPT !.cn = filled.val], filled.err)
             ELSE GetAttrDefLookup([h EXCEPT !.cn = filled.val], vw, f))))
    ELSE Then(from_dict(h.ret), LAMBDA attr_def :
             IF ~attr_def.ok THEN Raise(h, attr_def.err)
             ELSE Return([h EXCEPT !.cn = CachePut(@, f.name, f.e, attr_def.val)],
                         attr_def.val))

\* one step of the running frame of find({'db/ident': None}): the next
\* candidate is read, or the dict read is kept, or the results are returned
FindStep(h, vw, f) ==
    IF f.pc = "wait"
    THEN SetTop(h, [f EXCEPT !.pc = "next", !.i = @ + 1,
                             !.d = DictSet(@, f.order[f.i], h.ret)])
    ELSE IF f.i > Len(f.order)
    THEN Return(h, [e \in {x \in DOMAIN f.d : "db/ident" \in DOMAIN f.d[x]} |-> f.d[e]])
    ELSE CallGetFromFacts(h, [f EXCEPT !.pc = "wait"],
                          FactsMultiEntity(vw, Range(f.order), f.order[f.i]))

\* one step of the running frame of _active_facts_to_dict
ActiveFactsToDictStep(h, f) ==
    IF f.pc = "wait"
    THEN Then(f.active[f.i], LAMBDA p :
         SetTop(h, [f EXCEPT !.pc = "next", !.i = @ + 1,
                             !.d = DictSet(@, p[1],
                                     IF h.ret.cardinality = "db.cardinality/one"
                                     THEN Entry(FALSE, <<p[2]>>)
                                     ELSE Entry(TRUE, (IF p[1] \in DOMAIN f.d
                                                       THEN f.d[p[1]].vals ELSE <<>>)
                                                          \o <<p[2]>>))]))
    ELSE IF f.i > Len(f.active) THEN Return(h, f.d)
    ELSE Call(h, [f EXCEPT !.pc = "wait"], GetAttrDefFrame(f.active[f.i][1]))

\* db = conn.db(); db.get(entity) begins
GetBegin ==
    /\ held.pc \in {"idle", "done"}
    /\ \E db \in {ConnDb(log)} : \E entity \in Entities(View(db, log)) :
          held' = Then([NoCall EXCEPT !.some = TRUE, !.db = db, !.pc = "running",
                                      !.entity = entity], LAMBDA h :
                      Then(GetActiveFacts(FactsOf(View(db, log), entity)), LAMBDA active :
                          IF ~active.ok THEN Raise(h, active.err)
                          ELSE [h EXCEPT !.stack = <<ActiveFactsToDictFrame(active.val)>>]))
    /\ res' = NoRes
    /\ UNCHANGED <<log, facts>>

GetAttrDefRuns ==
    /\ held.pc = "running"
    /\ Top(held).fn = "_get_attr_def"
    /\ held' = GetAttrDefStep(held, View(held.db, log), Top(held))
    /\ UNCHANGED <<log, facts, res>>

FindRuns ==
    /\ held.pc = "running"
    /\ Top(held).fn = "find"
    /\ held' = FindStep(held, View(held.db, log), Top(held))
    /\ UNCHANGED <<log, facts, res>>

ActiveFactsToDictRuns ==
    /\ held.pc = "running"
    /\ Top(held).fn = "_active_facts_to_dict"
    /\ held' = ActiveFactsToDictStep(held, Top(held))
    /\ UNCHANGED <<log, facts, res>>

NextAttrDef ==
    \/ FactsNew
    \/ FactsAddUpTo(AttrDefAddArgs, MaxFacts, MaxAttrDef)
    \/ Transact(MaxAttrDef)
    \/ GetBegin
    \/ GetAttrDefRuns
    \/ FindRuns
    \/ ActiveFactsToDictRuns

SpecAttrDef == InitAttrDef /\ [][NextAttrDef]_vars

(***************************************************************************)
(* Properties.                                                             *)
(***************************************************************************)
\* C1: a transact call that fails leaves the log exactly as it was (no
\* prefix of the transaction is written), and an as_if call that fails
\* leaves all_facts() and get(e) of the receiver as they were
C1_FailedCallWritesNothing ==
    [][/\ (res'.op = "transact" /\ ~res'.ok) => log' = log
       /\ (res'.op = "as_if" /\ ~res'.ok) =>
             /\ Reads(held'.db, log', held'.cn).all_facts
                    = Reads(held.db, log, held.cn).all_facts
             /\ Reads(held'.db, log', held'.cn).get
                    = Reads(held.db, log, held.cn).get]_vars

\* a transact call has failed on its second fact after its first fact passed
C1_Witness ==
    /\ res.op = "transact"
    /\ ~res.ok
    /\ res.err = "ValueError:unique value is already assigned"
    /\ Len(facts) = 2
    /\ TransactCall(log, <<facts[1]>>, CHOOSE t \in Times : TRUE).res.ok

\* C2: after a successful transact, db_after.all_facts() is
\* db_before.all_facts() followed by the returned tx_data; the log only
\* grows, and no document written earlier is changed or removed
C2_AllFactsGrowByTxData ==
    /\ [](res.op = "transact" /\ res.ok =>
            AllFacts(View(res.db_after, log))
                = AllFacts(View(res.db_before, log)) \o res.tx_data)
    /\ [][SubSeq(log', 1, Len(log)) = log]_vars

DatomsOf(db) == Range(RemoteFind(log, db.tx_max)) \cup Range(db.with)

\* the last call was a transact or an as_if, and it returned
Returned == res.op \in {"transact", "as_if"} /\ res.ok

\* C4: the datoms of a transaction follow the buffer's order (after the
\* db/txInstant datom), carry one tx, and have the ids max_id+1 .. max_id+n,
\* max_id = the largest datom id of the value the call started from; the ids
\* of the log are strictly increasing in commit order
C4_OrderTxAndIds ==
    /\ Returned =>
          LET td == res.tx_data
              max_id == max_default({d.id : d \in DatomsOf(res.db_before)}, -1)
          IN /\ Len(td) = Len(facts) + 1
             /\ \A i \in 1..Len(facts) :
                   <<td[i + 1].a, td[i + 1].v, td[i + 1].op>>
                       = <<facts[i].a, facts[i].v, facts[i].op>>
             /\ \A i \in 1..Len(td) : td[i].tx = td[1].tx /\ td[i].id = max_id + i
    /\ \A i, j \in 1..Len(log) : i < j => log[i].id < log[j].id

\* as_if has returned a transaction of three datoms on a value with an overlay
C4_Witness ==
    /\ res.op = "as_if"
    /\ res.ok
    /\ res.db_before.with # <<>>
    /\ Len(res.tx_data) = 3

\* C5: the transaction entity is max(e)+1 of the value the call started
\* from, every new temp-id (named or None) gets the next unused integer in
\* order of first appearance, and the entity ids of the log have no gaps
C5_FreshEntityIds ==
    /\ Returned =>
          LET td == res.tx_data
              max_e == max_default({d.e : d \in DatomsOf(res.db_before)}, -1)
              fresh(i) == \/ facts[i].e.k = "none"
                          \/ /\ facts[i].e.k = "str"
                             /\ facts[i].e.s # "datomic.tx"
                             /\ \A j \in 1..(i - 1) : facts[j].e # facts[i].e
              nfresh(i) == Cardinality({j \in 1..i : fresh(j)})
          IN /\ td[1].e = max_e + 1
             /\ td[1].tx = max_e + 1
             /\ \A i \in 1..Len(facts) : fresh(i) => td[i + 1].e = max_e + 1 + nfresh(i)
    /\ {log[i].e : i \in 1..Len(log)} \cap Nat
           = 0..max_default({log[i].e : i \in 1..Len(log)}, -1)

\* as_if has returned a transaction with two new entities on a value with
\* an overlay
C5_Witness ==
    /\ res.op = "as_if"
    /\ res.ok
    /\ res.db_before.with # <<>>
    /\ Len(facts) = 2
    /\ facts[1].e.k \in {"none", "str"}
    /\ facts[2].e.k \in {"none", "str"}
    /\ res.tx_data[3].e = res.tx_data[2].e + 1

\* C6: the datom with the lowest id of every transaction T of the log is
\* the assert (e = T, a = db/txInstant), and the facts addressed to
\* 'datomic.tx' are datoms of the entity T
C6_TxInstantFirst ==
    /\ \A T \in {log[i].tx : i \in 1..Len(log)} :
          LET first == CHOOSE i \in 1..Len(log) :
                          /\ log[i].tx = T
                          /\ \A j \in 1..Len(log) : log[j].tx = T => log[i].id <= log[j].id
          IN log[first].e = T /\ log[first].a = "db/txInstant" /\ log[first].op
    /\ (res.op = "transact" /\ res.ok) =>
          \A i \in 1..Len(facts) :
              facts[i].e = RStr("datomic.tx") => res.tx_data[i + 1].e = res.tx_data[1].tx

\* a transaction with a fact addressed to 'datomic.tx' is committed
C6_Witness ==
    /\ res.op = "transact"
    /\ res.ok
    /\ Len(log) > Len(Boot.log)
    /\ \E i \in 1..Len(facts) : facts[i].e = RStr("datomic.tx")

\* C7: in one buffer a temp-id names one entity and different temp-ids name
\* different entities, the facts of Facts.add_set(None, dict) are on one new
\* entity, and temp_ids maps every name to the entity its datoms carry
C7_TempIds ==
    Returned =>
        LET td == res.tx_data
            named == {0} \cup {i \in 1..Len(facts) : facts[i].e.k = "str"}
            name(i) == IF i = 0 THEN "datomic.tx" ELSE facts[i].e.s
            max_e == max_default({d.e : d \in DatomsOf(res.db_before)}, -1)
        IN /\ \A i, j \in named : (name(i) = name(j)) <=> (td[i + 1].e = td[j + 1].e)
           /\ DOMAIN res.temp_ids = {name(i) : i \in named}
           /\ \A i \in named : res.temp_ids[name(i)] = td[i + 1].e
           /\ \A i \in named : name(i) \in Range(UuidPool) => td[i + 1].e > max_e

\* a transaction after the first one is committed whose buffer was filled by
\* add_set(None, dict) with two pairs
C7_Witness ==
    /\ res.op = "transact"
    /\ res.ok
    /\ Len(log) > Len(Boot.log)
    /\ Len(facts) = 2
    /\ facts[1].e = facts[2].e
    /\ facts[1].e.s \in Range(UuidPool)

\* the datoms of the database value Connection.db() returns, in id order
Committed == RemoteFind(log, ConnDb(log).tx_max)

\* the definition the value Connection.db() returns gives the attribute a
Definition(a) == GetAttrDef(View(ConnDb(log), log), NoCache, {}, a)

\* the entities and the attributes of the datoms ds
EntitiesIn(ds) == {ds[i].e : i \in 1..Len(ds)}
AttributesIn(ds) == {ds[i].a : i \in 1..Len(ds)}

\* the replay of the datoms ds of one entity and attribute from the i-th on,
\* cur = <<v>> when v is set: no assert while a value is set, no retract of
\* a value that is not set
RECURSIVE ReplaysAsOne(_, _, _)
ReplaysAsOne(ds, i, cur) ==
    IF i > Len(ds) THEN TRUE
    ELSE IF ds[i].op THEN cur = <<>> /\ ReplaysAsOne(ds, i + 1, <<ds[i].v>>)
    ELSE cur = <<ds[i].v>> /\ ReplaysAsOne(ds, i + 1, <<>>)

\* the values the entity e holds for the attribute a in the datoms ds: those
\* whose last datom is an assert
ActiveValues(ds, e, a) ==
    {ds[i].v : i \in {i \in 1..Len(ds) :
        /\ ds[i].e = e
        /\ ds[i].a = a
        /\ ds[i].op
        /\ \A j \in (i + 1)..Len(ds) : ~(ds[j].e = e /\ ds[j].a = a /\ ds[j].v = ds[i].v)}}

\* no two entities of the datoms ds hold the same active value of a
NoSharedValue(ds, a) ==
    Then([e \in EntitiesIn(ds) |-> ActiveValues(ds, e, a)], LAMBDA act :
        \A e1, e2 \in EntitiesIn(ds) : e1 # e2 => act[e1] \cap act[e2] = {})

\* C8: in the value Connection.db() returns, the datoms of every allocated
\* entity for every attribute defined with cardinality one replay in id
\* order with no assert while a value is set and no retract of a value that
\* is not set
C8_CardinalityOne ==
    Then(Committed, LAMBDA ds :
        \A a \in AttributesIn(ds) :
            Then(Definition(a), LAMBDA def :
                (def.ok /\ def.val.cardinality = "db.cardinality/one") =>
                    \A e \in EntitiesIn(ds) \cap Nat :
                        ReplaysAsOne(SelectSeq(ds, LAMBDA d : d.e = e /\ d.a = a), 1, <<>>)))

\* C9: in the value Connection.db() returns, no two entities hold the same
\* active value of an attribute defined as unique
C9_UniqueValues ==
    Then(Committed, LAMBDA ds :
        \A a \in AttributesIn(ds) :
            Then(Definition(a), LAMBDA def :
                (def.ok /\ def.val.unique \in UniqueValues) => NoSharedValue(ds, a)))

\* C10: in the value Connection.db() returns, no two entities have the same
\* active db/ident
C10_IdentUnique == NoSharedValue(Committed, "db/ident")

\* a transaction that gives a new entity the db/ident of a defined
\* attribute has been rejected
C10_Witness ==
    /\ res.op = "transact"
    /\ ~res.ok
    /\ res.err = "ValueError:unique value is already assigned"
    /\ Len(facts) = 1
    /\ facts[1].a = "db/ident"
    /\ \E e \in EntitiesIn(Committed) : facts[1].v \in ActiveValues(Committed, e, "db/ident")

\* the one-fact buffers a second branch is taken with
Branches == {<<Fact(x[1], x[2], x[3], TRUE)>> : x \in AddArgs}

\* C14: after db1 = db.as_if(A), db1 holds the datoms of db followed by A's
\* datoms, db holds what it held, a branch db2 = db.as_if(B) taken from db
\* holds the datoms of db followed by B's and none of A's, and no as_if call
\* changes the log that Connection.db() reads
C14_BranchesIsolated ==
    /\ [](res.op = "as_if" /\ res.ok =>
            /\ res.self = res.db_before
            /\ res.db_after.tx_max = res.db_before.tx_max
            /\ res.db_after.with = res.db_before.with \o res.tx_data
            /\ \A B \in Branches : \A time \in Times :
                  Then(AsIfCall(res.self, log, B, time), LAMBDA r2 :
                      r2.ok =>
                          /\ r2.db_after.tx_max = res.db_before.tx_max
                          /\ r2.db_after.with = res.db_before.with \o r2.tx_data
                          /\ Range(r2.db_after.with)
                                 \cap (Range(res.tx_data) \ Range(r2.tx_data)) = {}
                          /\ r2.self = res.db_before))
    /\ [][res'.op = "as_if" => log' = log]_vars

\* a branch was taken from a value with an overlay, the caller went on with
\* the receiver, and a second branch with other facts can be taken from it
C14_Witness ==
    /\ res.op = "as_if"
    /\ res.ok
    /\ res.db_before.with # <<>>
    /\ held.db = res.self
    /\ \E B \in Branches : \E time \in Times :
          Then(AsIfCall(res.self, log, B, time), LAMBDA r2 :
              r2.ok /\ Range(Tail(r2.tx_data)) \cap Range(Tail(res.tx_data)) = {})

ViewUpTo(db, tx_id) ==
    Then(View(db, log), LAMBDA vw :
    Then(SelectSeq(vw.r, LAMBDA d : d.tx <= tx_id), LAMBDA r :
        [r |-> r, stored |-> SelectSeq(vw.stored, LAMBDA d : d.tx <= tx_id),
         e_max |-> max_default({r[i].e : i \in 1..Len(r)}, -1),
         with |-> SelectSeq(vw.with, LAMBDA d : d.tx <= tx_id)]))

\* C12: all_facts() of db.as_of(tx_id) is the datoms of db.all_facts() with
\* tx <= tx_id in the same order, get(e) of it is get(e) over only the datoms
\* with tx <= tx_id, and as_of(tx_max).all_facts() is db.all_facts()
C12_AsOfIsPrefix ==
    (res.op = "as_of" /\ res.ok) =>
        Then(View(res.val, log), LAMBDA vw :
        Then(AllFacts(View(res.db, log)), LAMBDA all :
            /\ AllFacts(vw) = SelectSeq(all, LAMBDA d : d.tx <= res.arg)
            /\ res.arg = TxMax(res.db) => AllFacts(vw) = all
            /\ \A e \in Entities(View(res.db, log)) :
                  Outcome(Get(vw, NoCache, {}, e))
                      = Outcome(Get(ViewUpTo(res.db, res.arg), NoCache, {}, e))))

\* as_of has returned for a transaction in the middle of an overlay of two
\* transactions
C12_Witness ==
    /\ res.op = "as_of"
    /\ res.ok
    /\ res.arg > res.db.tx_max
    /\ \E i \in 1..Len(res.db.with) : res.db.with[i].tx > res.arg
    /\ res.val.with # <<>>

\* C13: as_of(tx_id) raises 'cannot travel into the future' exactly when
\* tx_id is above the highest tx of the overlay, or with an empty overlay
\* above the highest tx of the remote snapshot (-1 when it is empty)
C13_AsOfFuture ==
    res.op = "as_of" =>
        LET r == RemoteFind(log, res.db.tx_max)
            tx_max == IF res.db.with # <<>>
                      THEN max_default({res.db.with[i].tx : i \in 1..Len(res.db.with)}, -1)
                      ELSE max_default({r[i].tx : i \in 1..Len(r)}, -1)
        IN /\ ~res.ok <=> res.arg > tx_max
           /\ ~res.ok => res.err = "ValueError:cannot travel into the future"

\* as_of has raised for the transaction after the last one of a value with
\* an overlay
C13_Witness ==
    /\ res.op = "as_of"
    /\ ~res.ok
    /\ res.db.with # <<>>
    /\ res.arg = TxMax(res.db) + 1

\* C11: in the value Connection.db() returns, the entity every active datom
\* of a ref-typed attribute points to has at least one active datom
C11_RefIntegrity ==
    Then(Committed, LAMBDA ds :
        \A a \in AttributesIn(ds) :
            Then(Definition(a), LAMBDA def :
                (def.ok /\ def.val.value_type = "db.type/ref") =>
                    \A e \in EntitiesIn(ds) : \A v \in ActiveValues(ds, e, a) :
                        \E b \in AttributesIn(ds) : ActiveValues(ds, v.n, b) # {}))

\* the datoms of the entity e in the datoms ds end with an assert of (a, v)
\* followed by its retract, in one transaction or in two consecutive ones
EndsWithRoundTrip(ds, e) ==
    Then(SelectSeq(ds, LAMBDA d : d.e = e), LAMBDA de :
    Then(Len(de), LAMBDA n :
        /\ n >= 2
        /\ de[n - 1].op
        /\ ~de[n].op
        /\ de[n - 1].a = de[n].a
        /\ de[n - 1].v = de[n].v
        /\ ~\E i \in 1..Len(ds) : de[n - 1].tx < ds[i].tx /\ ds[i].tx < de[n].tx))

\* C16: when the datoms of an entity end with an assert of (a, v) followed
\* by its retract, get(e) is what the datoms before the assert give when a
\* has cardinality many, and has no key a when a has cardinality one
C16_RetractRoundTrip ==
    Then(Committed, LAMBDA ds :
    Then(View(ConnDb(log), log), LAMBDA vw :
        \A e \in EntitiesIn(ds) :
            EndsWithRoundTrip(ds, e) =>
                Then(SelectSeq(ds, LAMBDA d : d.e = e), LAMBDA de :
                Then(GetAttrDef(vw, NoCache, {}, de[Len(de)].a), LAMBDA def :
                Then(Get(vw, NoCache, {}, e), LAMBDA after :
                    def.ok =>
                        /\ after.ok
                        /\ def.val.cardinality = "db.cardinality/many" =>
                              after.val
                                  = GetFromFacts(vw, NoCache, {}, SubSeq(de, 1, Len(de) - 2)).val
                        /\ def.val.cardinality = "db.cardinality/one" =>
                              de[Len(de)].a \notin DOMAIN after.val)))))

\* a value of a cardinality-many attribute was asserted in one transaction
\* and retracted in the next one, on an entity that holds another value
C16_Witness ==
    \E e \in EntitiesIn(Committed) :
        Then(SelectSeq(Committed, LAMBDA d : d.e = e), LAMBDA de :
            /\ EndsWithRoundTrip(Committed, e)
            /\ Len(de) >= 3
            /\ de[Len(de)].a = "tag"
            /\ de[Len(de)].tx > de[Len(de) - 1].tx
            /\ Definition("tag").ok
            /\ DOMAIN Get(View(ConnDb(log), log), NoCache, {}, e).val # {})

\* the buffer fs is what one Facts.replace call on an int entity stages
IsReplace(fs) ==
    /\ Len(fs) = 2
    /\ ~fs[1].op
    /\ fs[2].op
    /\ fs[1].e = fs[2].e
    /\ fs[1].e.k = "int"
    /\ fs[1].a = fs[2].a

\* the current value of (e, a) in the value Connection.db() returns is old
CurrentIs(e, a, old) ==
    Then(Get(View(ConnDb(log), log), NoCache, {}, e), LAMBDA cur :
        cur.ok /\ a \in DOMAIN cur.val /\ cur.val[a].vals = <<old>>)

\* new is a value the attribute accepts on e: it passes the validation of
\* the value and, when the attribute is unique, no other entity holds it
NewAccepted(def, e, new) ==
    /\ ValidateValue(def, new).ok
    /\ def.unique \in UniqueValues =>
          \A e2 \in EntitiesIn(Committed) \ {e} :
              new \notin ActiveValues(Committed, e2, def.ident)

\* what a transaction of one replace(e, a, old, new) leaves: get(e)[a] is
\* new, the last two datoms of facts(e) are the retract of old and the
\* assert of new; a failed one leaves the log as it was
ReplaceEffect(ok, lg_before, lg_after) ==
    Then(View(ConnDb(lg_after), lg_after), LAMBDA vw :
    Then(FactsOf(vw, facts[1].e.n), LAMBDA fe :
    Then(Get(vw, NoCache, {}, facts[1].e.n), LAMBDA after :
        /\ ok =>
              /\ after.ok
              /\ facts[1].a \in DOMAIN after.val
              /\ after.val[facts[1].a].vals = <<facts[2].v>>
              /\ Len(fe) >= 2
              /\ <<fe[Len(fe) - 1].a, fe[Len(fe) - 1].v, fe[Len(fe) - 1].op>>
                     = <<facts[1].a, facts[1].v, FALSE>>
              /\ <<fe[Len(fe)].a, fe[Len(fe)].v, fe[Len(fe)].op>>
                     = <<facts[2].a, facts[2].v, TRUE>>
        /\ ~ok => lg_after = lg_before)))

\* C17 as stated: a transaction of one replace(e, a, old, new) on a
\* cardinality-one attribute succeeds exactly when the current value of
\* (e, a) is old; then get(e)[a] is new and facts(e) holds the retract
\* before the assert; otherwise nothing is written
C17_ReplaceIffOld ==
    [][(res'.op = "transact" /\ IsReplace(facts)) =>
          Then(GetAttrDef(View(ConnDb(log), log), NoCache, {}, facts[1].a), LAMBDA def :
              (def.ok /\ def.val.cardinality = "db.cardinality/one") =>
                  /\ res'.ok <=> CurrentIs(facts[1].e.n, facts[1].a, facts[1].v)
                  /\ ReplaceEffect(res'.ok, log, log'))]_vars

\* C17 amended: it succeeds exactly when the current value of (e, a) is old
\* and new is a value the attribute accepts that, for a unique attribute, no
\* other entity holds
C17_ReplaceIffOldAndNewAccepted ==
    [][(res'.op = "transact" /\ IsReplace(facts)) =>
          Then(GetAttrDef(View(ConnDb(log), log), NoCache, {}, facts[1].a), LAMBDA def :
              (def.ok /\ def.val.cardinality = "db.cardinality/one") =>
                  /\ res'.ok <=> /\ CurrentIs(facts[1].e.n, facts[1].a, facts[1].v)
                                 /\ NewAccepted(def.val, facts[1].e.n, facts[2].v)
                  /\ ReplaceEffect(res'.ok, log, log'))]_vars

\* a transaction of one replace on a cardinality-one attribute is committed
C17_Witness ==
    /\ res.op = "transact"
    /\ res.ok
    /\ IsReplace(facts)
    /\ facts[1].a = "nm"
    /\ Len(log) > Len(BootData.log)

\* C18: in the value Connection.db() returns, get(e) holds v under a - as
\* the scalar when a has cardinality one, in the list when it has cardinality
\* many - exactly when the datom with the highest id for (e, a, v) is an
\* assert; an entity with no such datom yields the empty dict
C18_GetHoldsActive ==
    Then(Committed, LAMBDA ds :
    Then(View(ConnDb(log), log), LAMBDA vw :
        \A e \in EntitiesIn(ds) \cup Entities(vw) :
            Then(Get(vw, NoCache, {}, e), LAMBDA g :
                /\ g.ok
                /\ DOMAIN g.val \subseteq AttributesIn(ds)
                /\ \A a \in AttributesIn(ds) :
                      /\ ActiveValues(ds, e, a)
                             = IF a \in DOMAIN g.val THEN Range(g.val[a].vals) ELSE {}
                      /\ a \in DOMAIN g.val =>
                            Then(GetAttrDef(vw, NoCache, {}, a), LAMBDA def :
                                /\ def.ok
                                /\ g.val[a].many
                                       <=> def.val.cardinality = "db.cardinality/many"
                                /\ Len(g.val[a].vals) = Cardinality(ActiveValues(ds, e, a))))))

\* the dict d of get(e) has every attribute of the criteria and equals the
\* given value wherever that value is not None
Matches(d, criteria) ==
    \A i \in 1..Len(criteria) :
        /\ criteria[i].a \in DOMAIN d
        /\ \/ criteria[i].any
           \/ d[criteria[i].a] = Entry(criteria[i].many, criteria[i].vals)

\* C19: find(criteria) returns exactly the entities e whose get(e) has every
\* attribute of the criteria and equals the given value wherever it is not
\* None, each mapped to get(e), whichever key comes first; with empty
\* criteria it returns every entity with a non-empty get(e)
C19_FindMatchesGet ==
    res.op = "find" =>
        Then(View(res.db, log), LAMBDA vw :
        Then(EntitiesIn(RemoteFind(log, res.db.tx_max) \o res.db.with) \cup Entities(vw),
             LAMBDA E :
            (\A e \in E : Get(vw, NoCache, {}, e).ok) =>
                /\ res.ok
                /\ res.val = [e \in {x \in E : /\ DOMAIN Get(vw, NoCache, {}, x).val # {}
                                               /\ Matches(Get(vw, NoCache, {}, x).val, res.arg)}
                                 |-> Get(vw, NoCache, {}, e).val]))

\* C20: the keys of states(e) are exactly the transaction ids of the datoms
\* of e - no key -1, no transaction that does not touch e, none missing - and
\* states(e)[tx] is get(e) over the datoms with tx' <= tx
C20_StatesPerTransaction ==
    res.op = "states" =>
        Then(View(res.db, log), LAMBDA vw :
        Then(SelectSeq(vw.r \o vw.with, LAMBDA d : d.e = res.arg), LAMBDA ds :
            Get(vw, NoCache, {}, res.arg).ok =>
                /\ res.ok
                /\ DOMAIN res.val = {ds[i].tx : i \in 1..Len(ds)}
                /\ \A tx \in DOMAIN res.val :
                      Then(Get(ViewUpTo(res.db, tx), NoCache, {}, res.arg), LAMBDA g :
                          g.ok /\ res.val[tx] = g.val)))

\* the transactions of the view vw and the db/txInstant get() gives each
TransactionsOf(vw) == {d.tx : d \in Range(vw.r) \cup Range(vw.with)}

InstantOf(vw, tx) ==
    Then(Get(vw, NoCache, {}, tx), LAMBDA g :
        IF g.ok /\ "db/txInstant" \in DOMAIN g.val
        THEN {g.val["db/txInstant"].vals[1].n} ELSE {})

\* C21: transaction_at(t) is the highest transaction id whose db/txInstant
\* is <= t, or -1 when there is none; with a clock that never runs
\* backwards it is non-decreasing in t, and as_of(transaction_at(t)) never
\* fails
C21_TransactionAt ==
    res.op = "transaction_at" =>
        Then(View(res.db, log), LAMBDA vw :
            /\ res.ok
            /\ res.val = max_default({tx \in TransactionsOf(vw) :
                                         \E n \in InstantOf(vw, tx) : n <= res.arg}, -1)
            /\ \A t \in AskedTimes :
                  t <= res.arg => transaction_at(vw, t).val <= res.val
            /\ AsOfCall(res.db, log, res.val).ok)

\* C22: all_facts() of every database value is sorted by datom id and holds
\* every datom of the remote snapshot and of the overlay exactly once,
\* whatever entity reference the datom was transacted with
C22_AllFactsSortedComplete ==
    held.some =>
        Then(View(held.db, log), LAMBDA vw :
        Then(AllFacts(vw), LAMBDA all :
            /\ \A i \in 1..(Len(all) - 1) : all[i].id < all[i + 1].id
            /\ Range(all) = Range(vw.r) \cup Range(vw.with)
            /\ Len(all) = Len(vw.r) + Len(vw.with)))

\* the datom ids, and the entity ids above the largest entity id max_entity
\* of the starting value (the tx id among them), that a call assigned in
\* tx_data
AssignedIds(tx_data, max_entity) ==
    {<<"id", tx_data[i].id>> : i \in 1..Len(tx_data)}
        \cup {<<"e", tx_data[i].e>> : i \in {i \in 1..Len(tx_data) : tx_data[i].e > max_entity}}

\* C23: after transact rejected a buffer whose datoms had their ids
\* assigned, no buffer the caller transacts next with success is assigned a
\* datom id, an entity id or a tx id of the rejected call
C23_RejectedIdsWasted ==
    (res.op = "transact" /\ ~res.ok) =>
        Then(View(res.db_before, log), LAMBDA vw :
        Then(TransactionData(vw, facts, CHOOSE t \in Times : TRUE), LAMBDA td :
            td.ok =>
                \A x \in AddArgs, time \in Times :
                    Then(TransactCall(log, Add(<<>>, x[1], x[2], x[3]), time).res, LAMBDA r :
                        r.ok =>
                            AssignedIds(r.tx_data, GetMaxEntityId(vw))
                                \cap AssignedIds(td.val.tx_data, GetMaxEntityId(vw)) = {})))

\* what was stored, in order, when scenario S1 was run on the empty database:
\* one transaction with the two definitions, one with the provider
S1Stored ==
    Then(<<"db/txInstant", DateV(CHOOSE t \in Times : TRUE)>>, LAMBDA instant :
        <<instant>> \o S1ProviderId \o S1ProviderName \o <<instant>> \o S1Apple)

S1Ran ==
    /\ Len(log) = Len(S1Stored)
    /\ \A i \in 1..Len(log) : <<log[i].a, log[i].v>> = S1Stored[i] /\ log[i].op

\* scenario S1 with the entity id provider for the temp-id 'apple'
S1Expect(provider) ==
    (S1Ran /\ res.op = "get") =>
        /\ \A i \in 1..8 : log[i].tx = 0
        /\ log[1].e = 0
        /\ \A i \in 2..5 : log[i].e = 1
        /\ \A i \in 6..8 : log[i].e = 2
        /\ \A i \in 9..11 : log[i].tx = 3
        /\ log[9].e = 3
        /\ log[10].e = provider /\ log[11].e = provider
        /\ res.ok
        /\ res.val = [a \in {"provider/id", "provider/name"} |->
                         Entry(FALSE, <<IF a = "provider/id" THEN StrV("AAPL")
                                        ELSE StrV("Apple")>>)]

\* C24: scenario S1 gives transaction id 0, attribute entities 1 and 2,
\* transaction entity 3 for the second transaction, provider entity 5, and
\* get(['provider/id', 'AAPL']) = {provider/id: 'AAPL', provider/name: 'Apple'}
C24_ScenarioS1 == S1Expect(5)

\* C24 as the code has it: the same with provider entity 4, the id after
\* the transaction entity 3
C24_ScenarioS1Provider4 == S1Expect(4)

\* scenario S1 was run and the provider was looked up
C24_Witness == S1Ran /\ res.op = "get" /\ res.ok

\* the attribute a is builtin or the db/ident of an entity of the datoms ds
DefinedBy(ds, a) ==
    \/ a \in BuiltinNames
    \/ \E e \in EntitiesIn(ds) : StrV(a) \in ActiveValues(ds, e, "db/ident")

\* the k-th datom of tx_data names an attribute that neither the starting
\* value nor the datoms before it define, and the datoms before it are valid
UndefinedAt(db_before, tx_data, k) ==
    /\ ~DefinedBy(View(db_before, log).r \o SubSeq(tx_data, 1, k - 1), tx_data[k].a)
    /\ ValidateTransaction(db_before, log, SubSeq(tx_data, 1, k - 1)).ok

\* C25: a transaction with a datom whose attribute is neither builtin nor
\* defined, by the starting value or by earlier datoms of the transaction,
\* fails with 'attribute is not defined' and nothing of it is written
C25_UndefinedAttribute ==
    res.op = "transact" =>
        Then(TransactionData(View(res.db_before, log), facts, CHOOSE t \in Times : TRUE),
             LAMBDA td :
            td.ok =>
                \A k \in 1..Len(td.val.tx_data) :
                    UndefinedAt(res.db_before, td.val.tx_data, k) =>
                        /\ ~res.ok
                        /\ res.err = "ValueError:attribute is not defined"
                        /\ \A i \in 1..Len(log) : log[i].tx <= res.db_before.tx_max)

\* the errors of validate_cardinality
CardinalityErrors ==
    {"ValueError:a value is already set", "ValueError:the value is already present",
     "ValueError:the value is not set"}

\* the datom (e, a, v, op) fails the cardinality rule of the attribute
\* definition attr against data = get(e)
CardinalityFails(attr, data, a, v, op) ==
    Then(attr.cardinality = "db.cardinality/one", LAMBDA one :
        IF op
        THEN IF one THEN a \in DOMAIN data
             ELSE a \in DOMAIN data /\ v \in Range(data[a].vals)
        ELSE IF one THEN ~(a \in DOMAIN data /\ data[a] = Entry(FALSE, <<v>>))
             ELSE ~(a \in DOMAIN data /\ v \in Range(data[a].vals)))

\* the view of the database value db with the datoms ds added to its overlay
ViewWith(db, ds) == View([db EXCEPT !.with = db.with \o ds], log)

\* C26: each datom of a transaction is checked against get(e) after the
\* earlier datoms of the transaction: an assert on cardinality one fails iff
\* a value is set, an assert on cardinality many iff the value is present, a
\* retract on cardinality one unless the value set is v, a retract on
\* cardinality many unless v is present
C26_CardinalityPerDatom ==
    res.op = "transact" =>
        Then(TransactionData(View(res.db_before, log), facts, CHOOSE t \in Times : TRUE),
             LAMBDA td :
            td.ok =>
                \A k \in 1..Len(td.val.tx_data) :
                    Then(td.val.tx_data[k], LAMBDA d :
                    Then(ViewWith(res.db_before, SubSeq(td.val.tx_data, 1, k - 1)), LAMBDA vw :
                    Then(GetAttrDef(vw, NoCache, {}, d.a), LAMBDA attr :
                    Then(Get(vw, NoCache, {}, d.e), LAMBDA data :
                        (/\ ValidateTransaction(res.db_before, log,
                                                SubSeq(td.val.tx_data, 1, k - 1)).ok
                         /\ attr.ok /\ data.ok
                         /\ ValidateValue(attr.val, d.v).ok
                         /\ ValidateRef(attr.val, d.v, vw, NoCache).ok) =>
                            IF CardinalityFails(attr.val, data.val, d.a, d.v, d.op)
                            THEN ~res.ok /\ res.err \in CardinalityErrors
                            ELSE \/ res.err \notin CardinalityErrors
                                 \/ ValidateTransaction(res.db_before, log,
                                        SubSeq(td.val.tx_data, 1, k)).ok)))))

\* a transaction that asserts the same value of a cardinality-many attribute
\* twice for one entity was rejected at the second assert
C26_Witness ==
    /\ res.op = "transact"
    /\ ~res.ok
    /\ res.err = "ValueError:the value is already present"
    /\ Len(facts) = 2
    /\ facts[1] = facts[2]
    /\ facts[1].a = "tag"

\* the entities of the datoms ds that hold the value v of the attribute a
Holders(ds, a, v) == {e \in EntitiesIn(ds) : v \in ActiveValues(ds, e, a)}

\* C27: a lookup ref used as the entity of a fact is resolved against the
\* database value before the transaction: if no entity holds the value
\* there, the transaction fails with the entity-not-found error and writes
\* nothing, even when an earlier fact of the buffer asserts the value; if an
\* entity holds it there, the fact is addressed to that entity, even when an
\* earlier fact of the buffer retracts the value
C27_LookupBeforeTransaction ==
    res.op = "transact" =>
        Then(View(res.db_before, log).r, LAMBDA before :
            \A i \in 1..Len(facts) :
                facts[i].e.k = "list" =>
                    IF Holders(before, facts[i].e.a, facts[i].e.v) = {}
                    THEN /\ ~res.ok
                         /\ res.err = "EntityNotFoundError"
                         /\ \A j \in 1..Len(log) : log[j].tx <= res.db_before.tx_max
                    ELSE /\ res.err # "EntityNotFoundError"
                         /\ res.ok => res.tx_data[i + 1].e
                                          \in Holders(before, facts[i].e.a, facts[i].e.v))

\* a buffer that asserts pid A for a new entity and then addresses a fact
\* to ['pid', 'A'] was rejected, on a database where the first fact alone is
\* accepted
C27_Witness ==
    /\ res.op = "transact"
    /\ ~res.ok
    /\ Len(facts) = 2
    /\ facts[1].e.k = "str" /\ facts[1].a = "pid" /\ facts[1].op
    /\ facts[2].e.k = "list"
    /\ TransactCall(log, <<facts[1]>>, CHOOSE t \in Times : TRUE).res.ok

\* the definition of the attribute a that the datoms of the view give: the
\* builtin one, or Attr.from_dict of the builtin attributes of the entity
\* that holds db/ident a
DefinitionFrom(vw, a) ==
    IF a \in BuiltinNames
    THEN [defined |-> TRUE, ok |-> TRUE, val |-> builtin_attr_dict[a]]
    ELSE Then(LookupDirect(vw, "db/ident", StrV(a)), LAMBDA e :
         IF ~e.ok \/ e.val = <<>> THEN [defined |-> FALSE, ok |-> FALSE, val |-> <<>>]
         ELSE Then(from_dict(AttrDict(GetActiveFacts(FactsOf(vw, e.val[1])).val)), LAMBDA attr :
              [defined |-> TRUE, ok |-> attr.ok, val |-> attr.val]))

\* the datom d passes the checks of the attribute definition attr on a
\* database value with the datoms of the view and nothing cached
DatomValid(vw, attr, d) ==
    Then(Get(vw, NoCache, {}, d.e), LAMBDA data :
        /\ ValidateValue(attr, d.v).ok
        /\ ValidateRef(attr, d.v, vw, NoCache).ok
        /\ data.ok
        /\ ValidateCardinality(attr, d.e, d.v, data.val, d.op).ok
        /\ ValidateUniqueness(attr, d.v, d.op, vw, NoCache).ok)

\* C28: every datom of a transaction is validated against the definition of
\* its attribute that results from the starting value and all earlier datoms
\* of the transaction: an attribute defined earlier in the transaction can be
\* used, a db/cardinality or db/unique changed earlier is the one applied
C28_DefinitionsWithinTransaction ==
    res.op = "transact" =>
        Then(TransactionData(View(res.db_before, log), facts, CHOOSE t \in Times : TRUE),
             LAMBDA td :
            td.ok =>
                \A k \in 1..Len(td.val.tx_data) :
                    Then(td.val.tx_data[k], LAMBDA d :
                    Then(ViewWith(res.db_before, SubSeq(td.val.tx_data, 1, k - 1)), LAMBDA vw :
                    Then(DefinitionFrom(vw, d.a), LAMBDA def :
                        (/\ ValidateTransaction(res.db_before, log,
                                                SubSeq(td.val.tx_data, 1, k - 1)).ok
                         /\ def.defined) =>
                            (ValidateTransaction(res.db_before, log,
                                                 SubSeq(td.val.tx_data, 1, k)).ok
                                 <=> def.ok /\ DatomValid(vw, def.val, d))))))

\* the sequences s and t hold the same datoms, each as often in s as in t
SameDatoms(s, t) ==
    \A x \in Range(s) \cup Range(t) :
        Cardinality({i \in 1..Len(s) : s[i] = x}) = Cardinality({i \in 1..Len(t) : t[i] = x})

\* no datom occurs twice in s
EachOnce(s) == \A i, j \in 1..Len(s) : s[i] = s[j] => i = j

\* what the read res.op with the argument res.arg returns on a fresh
\* Database over the same remote snapshot and the same buffer
FreshRead ==
    CASE res.op = "find_attribute" -> FindAttribute(FreshView, res.arg)
      [] res.op = "find_attribute_value" -> FindAttributeValue(FreshView, res.arg[1], res.arg[2])
      [] res.op = "facts_multi_entity" ->
            Extend([e \in res.arg |-> FactsMultiEntity(FreshView, res.arg, e)],
                   SetOrder(res.arg), 1)
      [] res.op = "facts_by_attribute" -> SelectSeq(Applied, LAMBDA d : d.a = res.arg)
      [] res.op = "facts_by_attribute_value" ->
            SelectSeq(Applied, LAMBDA d : d.a = res.arg[1] /\ d.v = res.arg[2])
      [] res.op = "facts_by_entity" -> SelectSeq(Applied, LAMBDA d : d.e = res.arg)

\* C29: on the validator's private Database, after any interleaving of reads
\* and _apply_datom calls, a read served from the attribute, attribute/value
\* or entity index, from the by-attribute, by-attribute/value or by-entity
\* index of the buffer, or from its maxima of e, id and tx, returns the same
\* datoms, each exactly once, as the read on a fresh Database over the same
\* remote snapshot and the same buffer
C29_CacheCoherence ==
    /\ res.op \in {"find_attribute", "find_attribute_value", "facts_multi_entity",
                   "facts_by_attribute", "facts_by_attribute_value", "facts_by_entity"} =>
          SameDatoms(res.val, FreshRead) /\ EachOnce(res.val)
    /\ res.op = "tx_max" => res.val = LocalTxMax(Applied)
    /\ res.op = "max_key" => res.val = LocalMaxKey(Applied, res.arg)

\* a read of the attribute/value index returned a datom that was applied
\* after the index was built
C29_Witness ==
    /\ res.op = "find_attribute_value"
    /\ res.arg[1] \in DOMAIN held.copy.attr_val_index
    /\ \E i \in 1..Len(res.val) : res.val[i] \in Range(Applied)
    /\ \E a \in DOMAIN held.copy.attr_index : held.copy.attr_index[a] # <<>>
    /\ Len(Applied) = MaxApplied

\* the entities whose states are compared: those of entities() and every
\* entity that has datoms
StatesEntities(db) ==
    Entities(View(db, log)) \cup {d.e : d \in Range(db.with)}
        \cup {log[i].e : i \in 1..Len(log)}

BatchOn(db, lg, fs, time) ==
    Then(SelectSeq(lg, LAMBDA d : d.tx <= db.tx_max), LAMBDA before :
    Then(TransactCall(before, fs, time), LAMBDA r :
        SubSeq(r.log, Len(before) + 1, Len(r.log))))

\* C31: transact does not look at the database again when it commits: the
\* batch a call hands to bulk_write is the one prepared on its db_before,
\* whatever was written since; when another call that read the same
\* db_before has written before, the batch carries the tx id and the first
\* datom id of that call's batch
C31_NoRecheckAtCommit ==
    [][res'.op = "bulk_write" /\ res' # res =>
          Then(held[res'.w], LAMBDA call :
              /\ res'.operations = call.lst_mongo
              /\ \A time \in Times :
                    res'.operations = BatchOn(call.db_before, log, call.facts, time)
              /\ \A v \in Writers \ {res'.w} :
                    held[v].pc \in {"written", "returned"}
                        /\ held[v].db_before = call.db_before
                    => /\ res'.operations[1].tx = held[v].lst_mongo[1].tx
                       /\ res'.operations[1].id = held[v].lst_mongo[1].id)]_vars

\* both calls read db() before either wrote; one has written and returned,
\* and the other has handed its batch, with the same tx id and first datom
\* id, to the backend, which held a document of that _id already
C31_Witness ==
    /\ res.op = "bulk_write"
    /\ ~res.ok
    /\ \E v \in Writers \ {res.w} :
          /\ held[v].pc = "returned"
          /\ held[v].db_before = held[res.w].db_before
          /\ held[v].lst_mongo[1].id = res.operations[1].id
          /\ held[v].lst_mongo[1].tx = res.operations[1].tx
          /\ held[v].facts # held[res.w].facts
          /\ ConnDb(res.log_before) # held[res.w].db_before

\* the entity e of the datoms ds holds an active db/ident and is a
\* well-formed attribute definition
WellFormedDefinition(ds, e) ==
    /\ ActiveValues(ds, e, "db/valueType") # {}
    /\ ActiveValues(ds, e, "db/cardinality") # {}
    /\ ActiveValues(ds, e, "db/unique") # {}
          => ActiveValues(ds, e, "db/cardinality") = {StrV("db.cardinality/one")}

\* C32: in the value Connection.db() returns, every entity with an active
\* db/ident has an active db/valueType and db/cardinality, and a db/unique
\* only with cardinality one, and Attr.from_dict succeeds on its dict
C32_DefinitionsWellFormed ==
    Then(View(ConnDb(log), log), LAMBDA vw :
        \A e \in Entities(vw) :
            ActiveValues(vw.r, e, "db/ident") # {} =>
                /\ WellFormedDefinition(vw.r, e)
                /\ Then(GetActiveFacts(FactsOf(vw, e)), LAMBDA active :
                       active.ok /\ from_dict(AttrDict(active.val)).ok))

\* C33: in the value Connection.db() returns, the attribute of every active
\* datom is builtin or the active db/ident of an entity of that value, and
\* get(e) succeeds for every entity of entities(); so no transaction that
\* retracts the db/ident of an attribute with active datoms is accepted
C33_ActiveAttributesDefined ==
    Then(View(ConnDb(log), log), LAMBDA vw :
        /\ \A i \in 1..Len(vw.r) :
              vw.r[i].v \in ActiveValues(vw.r, vw.r[i].e, vw.r[i].a)
                  => DefinedBy(vw.r, vw.r[i].a)
        /\ \A e \in Entities(vw) : Get(vw, NoCache, {}, e).ok)

\* the calls of find({'db/ident': None}) on the stack
NestedInits(h) == Cardinality({i \in 1..Len(h.stack) : h.stack[i].fn = "find"})

\* C34: on every value Connection.db() returns, a get that looks attribute
\* definitions up never runs the cache initialisation inside a running
\* cache initialisation, and it ends with a value or an error other than
\* RecursionError
C34_AttrDefTerminates ==
    /\ NestedInits(held) <= 1
    /\ held.pc = "done" => held.out # <<"raise", "RecursionError">>

\* the get run step by step ends as Get says: with the same dict, or with
\* the same error
StepwiseGetIsGet ==
    held.pc = "done" =>
        held.out = Outcome(Get(View(held.db, log), NoCache, {}, held.entity))

\* C35: every datom of a successful transact or as_if has an entity id e
\* with 0 <= e <= the highest entity id of db_after, an int entity
\* reference of the buffer is accepted only when it is an id from 0 to the
\* highest id of db_before, and facts(e) of db_after holds the datom
C35_EntityIdsAllocated ==
    res.op \in {"transact", "as_if"} /\ res.ok =>
        Then(View(res.db_after, log), LAMBDA vw :
            /\ \A i \in 1..Len(res.tx_data) :
                  /\ 0 <= res.tx_data[i].e
                  /\ res.tx_data[i].e <= GetMaxEntityId(vw)
                  /\ res.tx_data[i] \in Range(FactsOf(vw, res.tx_data[i].e))
            /\ \A i \in 1..Len(facts) :
                  facts[i].e.k = "int" =>
                      /\ 0 <= facts[i].e.n
                      /\ facts[i].e.n <= GetMaxEntityId(View(res.db_before, log)))

====
